---- MODULE Spec2Model ----
(***************************************************************************)
(* Plugin registry, task dispatch and event bus of cloudflare-manager.     *)
(*                                                                         *)
(*   PluginRegistry   src/unnamed/part_001                                 *)
(*   workersPlugin    src/unnamed/part_003                                 *)
(*   EventBusImpl     src/src/core/event/EventBus.ts                       *)
(*   CloudflareAPI    src/src/services/CloudflareAPI.ts                    *)
(***************************************************************************)
EXTENDS Integers, Sequences, FiniteSets, TLC

\* ------------------------------------------------------------------ bounds
\* number of executeTask invocations that may be in flight at once
MaxExec == 1
\* number of synchronous registrations the emitter may hold
MaxSync == 2
\* number of invocations in flight where invocations run side by side
MaxInFlight == 2

\* ------------------------------------------------- JS Map (insertion order)
\* A Map is a sequence of entries [k, v]; iteration order is insertion order.
MapHas(m, key) == \E i \in 1..Len(m) : m[i].k = key

MapIdx(m, key) == CHOOSE i \in 1..Len(m) : m[i].k = key

MapGet(m, key) == m[MapIdx(m, key)].v

\* variant: an existing entry is removed and the new one put last
MapSetLast(m, key, val) ==
    Append(SelectSeq(m, LAMBDA e : e.k # key), [k |-> key, v |-> val])

\* variant: an existing entry is kept instead of being replaced
MapSetIfAbsent(m, key, val) ==
    IF MapHas(m, key) THEN m ELSE Append(m, [k |-> key, v |-> val])

MapSet(m, key, val) ==
    IF MapHas(m, key)
      THEN [m EXCEPT ![MapIdx(m, key)] = [k |-> key, v |-> val]]
      ELSE Append(m, [k |-> key, v |-> val])

MapDelete(m, key) == SelectSeq(m, LAMBDA e : e.k # key)

\* ------------------------------------------------------ plugin catalogue
\* The plugins a caller may hand to register: the built-in workers plugin
\* and two plugins that claim the same resourceType with overlapping types.
\* (The built-in kv plugin is registered by its own specification.)
PluginIds == {"workersPlugin", "pluginA", "pluginB"}

resourceType(p) ==
    CASE p = "workersPlugin" -> "workers"
      [] p = "pluginA"       -> "x"
      [] p = "pluginB"       -> "x"
      [] p = "kvPlugin"      -> "kv"
      [] p = "pluginC"       -> "x:a"
      [] p = "pluginD"       -> "x"
      [] p = "pluginW"       -> "workers"

TaskTypeNames(p) ==
    CASE p = "workersPlugin" -> <<"create", "update", "delete", "query", "list">>
      [] p = "pluginA"       -> <<"a", "b">>
      [] p = "pluginB"       -> <<"a", "c">>
      [] p = "kvPlugin"      -> <<"list", "create", "delete", "list_keys", "get",
                                  "put", "delete_key", "bulk_write", "bulk_delete">>
      [] p = "pluginC"       -> <<"b">>
      [] p = "pluginD"       -> <<"a:b", "c">>
      [] p = "pluginW"       -> <<"delete", "update">>

\* plugin.getTaskTypes(): the task definitions, each identified by its owner
getTaskTypes(p) ==
    [i \in 1..Len(TaskTypeNames(p)) |-> [plugin |-> p, type |-> TaskTypeNames(p)[i]]]

ResourceTypes == {resourceType(p) : p \in PluginIds}

\* `${resourceType}:${taskType.type}`
FullType(rt, type) == rt \o ":" \o type

\* the composite keys callers pass to the task index: the keys of the
\* resourceType "x" plugins, one key no plugin declares, the workers keys
PluginKeys == {"x:a", "x:b", "x:c", "x:zz"}

NoDef == [plugin |-> "none", type |-> "none"]

VARIABLES
    plugins,        \* PluginRegistry.plugins      : Map resourceType -> plugin
    taskHandlers,   \* PluginRegistry.taskHandlers : Map fullType -> definition
    lastOp,         \* the last registry call and what it returned
    firstRegistered,\* history, kept where a property needs it: the
                    \* resourceTypes ever registered, in the order of their
                    \* first registration
    boot,           \* registerBuiltinPlugins: the statements executed so far
                    \* and the events announced
    cloud           \* the account at the external service: the workers it
                    \* holds, and per invocation the answer on its way back

histVars == <<firstRegistered, boot, cloud>>

regVars == <<plugins, taskHandlers, lastOp, firstRegistered, boot, cloud>>

\* ---------------------------------------------------------- PluginRegistry
\* the loop of register: taskHandlers.set(fullType, taskType) for each entry
RECURSIVE SetTaskTypes(_, _, _)
SetTaskTypes(th, rt, defs) ==
    IF defs = <<>> THEN th
    ELSE SetTaskTypes(MapSet(th, FullType(rt, Head(defs).type), Head(defs)),
                      rt, Tail(defs))

\* variant: the loop is left after its first iteration
DeleteFirstTaskType(th, rt, defs) ==
    IF defs = <<>> THEN th ELSE MapDelete(th, FullType(rt, Head(defs).type))

\* the loop of unregister: taskHandlers.delete(fullType) for each entry
RECURSIVE DeleteTaskTypes(_, _, _)
DeleteTaskTypes(th, rt, defs) ==
    IF defs = <<>> THEN th
    ELSE DeleteTaskTypes(MapDelete(th, FullType(rt, Head(defs).type)),
                         rt, Tail(defs))

getPlugin(rt) == IF MapHas(plugins, rt) THEN MapGet(plugins, rt) ELSE "undefined"

getAllPlugins == [i \in 1..Len(plugins) |-> plugins[i].v]

getTaskHandler(key) ==
    IF MapHas(taskHandlers, key) THEN MapGet(taskHandlers, key) ELSE NoDef

getAllTaskTypes ==
    [i \in 1..Len(taskHandlers) |->
        [type |-> taskHandlers[i].k, definition |-> taskHandlers[i].v]]

hasTaskType(key) == MapHas(taskHandlers, key)

\* the display metadata a plugin object carries (the built-in plugins'
\* descriptions are Chinese in the source)
PluginInfo(p) ==
    CASE p = "workersPlugin" ->
           [name |-> "workers", displayName |-> "Workers",
            description |-> "Cloudflare Workers script management"]
      [] p = "kvPlugin" ->
           [name |-> "kv", displayName |-> "KV Storage",
            description |-> "Cloudflare Workers KV key-value storage management"]
      [] OTHER ->
           [name |-> p, displayName |-> "Plugin " \o p, description |-> "about " \o p]

\* getPluginList(): getAllPlugins().map(plugin => ({...}))
getPluginList ==
    [i \in 1..Len(getAllPlugins) |->
        LET plugin == getAllPlugins[i]
        IN  [name         |-> PluginInfo(plugin).name,
             displayName  |-> PluginInfo(plugin).displayName,
             description  |-> PluginInfo(plugin).description,
             resourceType |-> resourceType(plugin),
             taskTypes    |-> [j \in 1..Len(getTaskTypes(plugin)) |->
                                  getTaskTypes(plugin)[j].type]]]

register(p) ==
    /\ plugins' = MapSet(plugins, resourceType(p), p)
    /\ taskHandlers' = SetTaskTypes(taskHandlers, resourceType(p), getTaskTypes(p))
    /\ lastOp' = [op |-> "register", rt |-> resourceType(p), plugin |-> p,
                  ret |-> TRUE]

\* variant: an absent plugin is reported as removed
unregisterReportsTrue(rt) ==
    IF ~MapHas(plugins, rt)
      THEN /\ lastOp' = [op |-> "unregister", rt |-> rt, plugin |-> "none",
                         ret |-> TRUE]
           /\ UNCHANGED <<plugins, taskHandlers>>
      ELSE /\ taskHandlers' =
                 DeleteTaskTypes(taskHandlers, rt, getTaskTypes(MapGet(plugins, rt)))
           /\ plugins' = MapDelete(plugins, rt)
           /\ lastOp' = [op |-> "unregister", rt |-> rt,
                         plugin |-> MapGet(plugins, rt), ret |-> TRUE]

unregister(rt) ==
    IF ~MapHas(plugins, rt)
      THEN /\ lastOp' = [op |-> "unregister", rt |-> rt, plugin |-> "none",
                         ret |-> FALSE]
           /\ UNCHANGED <<plugins, taskHandlers>>
      ELSE /\ taskHandlers' =
                 DeleteTaskTypes(taskHandlers, rt, getTaskTypes(MapGet(plugins, rt)))
           /\ plugins' = MapDelete(plugins, rt)
           /\ lastOp' = [op |-> "unregister", rt |-> rt,
                         plugin |-> MapGet(plugins, rt), ret |-> TRUE]

\* ------------------------------------------------- values a task can throw
\* A thrown JS value: an Error with a message, an Error with an empty
\* message, a value without a message property, null, undefined.
Err(msg) == [t |-> "Error", hasMessage |-> TRUE, message |-> msg]

ThrownValues ==
    {Err("boom"), Err(""),
     [t |-> "string", hasMessage |-> FALSE, message |-> ""],
     [t |-> "null", hasMessage |-> FALSE, message |-> ""],
     [t |-> "undefined", hasMessage |-> FALSE, message |-> ""]}

\* what the CloudflareAPI methods reject with: always an Error object
ApiErrors == {Err("Authentication error")}

\* ----------------------------------------------------- external responses
\* the task configurations: the name of the worker to act on
Configs == [workerName : {"foo", "bar"}]

\* the values an external operation can resolve with: worker, version and
\* deployment identifiers, the subdomain, worker lists, KVNamespace values
\* and lists, listKVKeys results and stored values
ApiValues(op) ==
    CASE op = "createWorker"       -> {"id1", "id2"}
      [] op = "uploadWorkerScript" -> {"v1", "v2"}
      [] op = "deployWorker"       -> {"d1"}
      [] op = "getSubdomain"       -> {"acme"}
      [] op = "listWorkers"        -> {<<>>, <<"foo">>, <<"bar">>, <<"foo", "bar">>}
      [] op = "deleteWorker"       -> {"void"}
      [] op = "listKVNamespaces"   ->
           {<<>>, <<[id |-> "ns1", title |-> "cache"]>>,
            <<[id |-> "ns2", title |-> "flags"], [id |-> "ns1", title |-> "cache"]>>}
      [] op = "createKVNamespace"  ->
           {[id |-> "ns1", title |-> "cache"], [id |-> "ns2", title |-> "flags"]}
      [] op = "listKVKeys"         ->
           {[keys |-> <<>>, cursor |-> "undefined"],
            [keys |-> <<[name |-> "k1"], [name |-> "k2"]>>, cursor |-> "c1"]}
      [] op = "getKVValue"         -> {"v1", ""}
      [] op \in {"deleteKVNamespace", "putKVValue", "deleteKVKey",
                 "bulkWriteKV", "bulkDeleteKV"} -> {"void"}

ApiOps == {"createWorker", "uploadWorkerScript", "deployWorker",
           "getSubdomain", "listWorkers", "deleteWorker",
           "bulkWriteKV", "bulkDeleteKV",
           "listKVNamespaces", "createKVNamespace", "deleteKVNamespace",
           "listKVKeys", "getKVValue", "putKVValue", "deleteKVKey"}

\* --------------------------------------------------------------- TaskResult
NoData == [none |-> TRUE]

Success(d) == [state |-> "resolved", success |-> TRUE, error |-> "", data |-> d]

Failure(msg) == [state |-> "resolved", success |-> FALSE, error |-> msg, data |-> NoData]

\* executeTask's own promise rejects
Rejected(msg) == [state |-> "rejected", success |-> FALSE, error |-> msg, data |-> NoData]

TypeErrorMsg == "TypeError: Cannot read properties of null or undefined"

\* catch (error) { return { success: false, error: error.message || generic } }
\* reading .message of null or undefined throws inside the catch block; the
\* generic message reads "task execution failed" in Chinese
CatchError(v) ==
    IF v.t \in {"null", "undefined"} THEN Rejected(TypeErrorMsg)
    ELSE IF v.hasMessage /\ v.message # "" THEN Failure(v.message)
    ELSE Failure("task execution failed")

\* `https://${config.workerName}.${subdomain}.workers.dev`
WorkerUrl(name, subdomain) ==
    "https://" \o name \o "." \o subdomain \o ".workers.dev"

\* variant: any listed worker counts as a match
FoundAnyWorker(workers, name) == workers # <<>>

\* workers.find(w => w.id === config.workerName)
Found(workers, name) == \E i \in 1..Len(workers) : workers[i] = name

\* ----------------------------------------------------------- one execution
IdleExec ==
    [pc |-> "idle", key |-> "none", def |-> NoDef, config |-> [workerName |-> ""],
     executed |-> 0, progress |-> <<>>, calls |-> <<>>, returns |-> <<>>,
     locals |-> [workerId |-> "", versionId |-> "", deploymentId |-> "",
                 workers |-> <<>>, parsed |-> NoData],
     result |-> [state |-> "pending", success |-> FALSE, error |-> "", data |-> NoData]]

\* variant: steps are counted from zero
updateProgressZeroBased(x, step, current, total) ==
    [x EXCEPT !.progress =
        Append(@, [step |-> step, current |-> current - 1, total |-> total])]

\* updateProgress({step, current, total})
updateProgress(x, step, current, total) ==
    [x EXCEPT !.progress =
        Append(@, [step |-> step, current |-> current, total |-> total])]

\* await api.<op>(args): the call is issued and the execution suspends
CallApi(x, op, args) ==
    [x EXCEPT !.calls = Append(@, [op |-> op, args |-> args]), !.pc = op]

\* return <result> from execute, passed through by executeTask
Return(x, r) == [x EXCEPT !.pc = "done", !.result = r]

\* execute rejects with v; the catch block of executeTask converts it
Throw(x, v) == [x EXCEPT !.pc = "done", !.result = CatchError(v)]

\* ---------------------------------------------------------------- JSON.parse
\* A JSON text is a sequence of tokens: punctuation, string literals and
\* the literal null.
Punct(c) == [t |-> "punct", s |-> c]

Str(c) == [t |-> "string", s |-> c]

Null == [t |-> "literal", s |-> "null"]

ParseFail == [ok |-> FALSE, val |-> NoData, next |-> 0]

\* value := string | null | "[" (value ("," value)*)? "]"
\*        | "{" (string ":" value ("," string ":" value)*)? "}"
\* parsed from position i; next is the position after the value
RECURSIVE ParseValue(_, _), ParseElements(_, _, _), ParseMembers(_, _, _)
ParseValue(ts, i) ==
    IF i > Len(ts) THEN ParseFail
    ELSE IF ts[i].t = "string"
      THEN [ok |-> TRUE, val |-> [t |-> "string", s |-> ts[i].s], next |-> i + 1]
    ELSE IF ts[i] = Null
      THEN [ok |-> TRUE, val |-> [t |-> "null"], next |-> i + 1]
    ELSE IF ts[i] = Punct("[")
      THEN IF i + 1 <= Len(ts) /\ ts[i + 1] = Punct("]")
             THEN [ok |-> TRUE, val |-> [t |-> "array", items |-> <<>>], next |-> i + 2]
             ELSE ParseElements(ts, i + 1, <<>>)
    ELSE IF ts[i] = Punct("{")
      THEN IF i + 1 <= Len(ts) /\ ts[i + 1] = Punct("}")
             THEN [ok |-> TRUE, val |-> [t |-> "object", members |-> <<>>], next |-> i + 2]
             ELSE ParseMembers(ts, i + 1, <<>>)
    ELSE ParseFail

ParseElements(ts, i, acc) ==
    LET r == ParseValue(ts, i)
    IN  IF ~r.ok \/ r.next > Len(ts) THEN ParseFail
        ELSE IF ts[r.next] = Punct(",")
          THEN ParseElements(ts, r.next + 1, Append(acc, r.val))
        ELSE IF ts[r.next] = Punct("]")
          THEN [ok |-> TRUE, val |-> [t |-> "array", items |-> Append(acc, r.val)],
                next |-> r.next + 1]
        ELSE ParseFail

ParseMembers(ts, i, acc) ==
    IF i + 1 > Len(ts) \/ ts[i].t # "string" \/ ts[i + 1] # Punct(":") THEN ParseFail
    ELSE LET r  == ParseValue(ts, i + 2)
             ms == Append(acc, [name |-> ts[i].s, val |-> r.val])
         IN  IF ~r.ok \/ r.next > Len(ts) THEN ParseFail
             ELSE IF ts[r.next] = Punct(",") THEN ParseMembers(ts, r.next + 1, ms)
             ELSE IF ts[r.next] = Punct("}")
               THEN [ok |-> TRUE, val |-> [t |-> "object", members |-> ms],
                     next |-> r.next + 1]
             ELSE ParseFail

\* variant: every text is accepted, as an empty list
JSONparseAnything(ts) == [ok |-> TRUE, val |-> [t |-> "array", items |-> <<>>]]

\* JSON.parse(text): the value, or ok = FALSE for a SyntaxError; the whole
\* text must be one value
JSONparse(ts) ==
    LET r == ParseValue(ts, 1)
    IN  IF r.ok /\ r.next = Len(ts) + 1
          THEN [ok |-> TRUE, val |-> r.val]
          ELSE [ok |-> FALSE, val |-> NoData]

\* the texts a bulk configuration field may hold
JsonTexts ==
    { \* [{"key":"k1","value":"v1"}]
      <<Punct("["), Punct("{"), Str("key"), Punct(":"), Str("k1"), Punct(","),
        Str("value"), Punct(":"), Str("v1"), Punct("}"), Punct("]")>>,
      \* ["k1","k2"]
      <<Punct("["), Str("k1"), Punct(","), Str("k2"), Punct("]")>>,
      \* []
      <<Punct("["), Punct("]")>>,
      \* {"key":"k1"}
      <<Punct("{"), Str("key"), Punct(":"), Str("k1"), Punct("}")>>,
      \* null
      <<Null>>,
      \* [{"key":"k1"     (cut short)
      <<Punct("["), Punct("{"), Str("key"), Punct(":"), Str("k1")>>,
      \* ["k1",]
      <<Punct("["), Str("k1"), Punct(","), Punct("]")>>,
      \* the empty text; an absent field fails to parse in the same way
      <<>> }

\* value.length of a parsed value that is not null
length(v) ==
    IF v.t = "array" THEN [t |-> "number", n |-> Len(v.items)] ELSE [t |-> "undefined"]

\* ------------------------------------------------------------- the kv tasks
\* the source's message reads "invalid JSON format" in Chinese
InvalidJsonFormat == "invalid JSON format"

KvConfig ==
    [namespaceId |-> "ns1", title |-> "cache", key |-> "k1", value |-> "v1",
     prefix |-> "k", limit |-> "10", kvPairs |-> <<>>, keys |-> <<>>]

\* the configurations a kv task is run with: the bulk tasks with every text
KvConfigs(type) ==
    CASE type = "bulk_write"  -> {[KvConfig EXCEPT !.kvPairs = j] : j \in JsonTexts}
      [] type = "bulk_delete" -> {[KvConfig EXCEPT !.keys = j] : j \in JsonTexts}
      [] OTHER                -> {KvConfig}

\* variant: the report counts one step more than there are
SingleCallSecondOfOne(x, step, op, args) ==
    CallApi(updateProgress(x, step, 2, 1), op, args)

\* updateProgress({step, current: 1, total: 1}); await api.<op>(args)
SingleCall(x, step, op, args) == CallApi(updateProgress(x, step, 1, 1), op, args)

\* the execute of a kv task up to its await; the bulk tasks parse their
\* text first and return a failed result when JSON.parse throws
KvStart(x) ==
    LET c == x.config
        t == x.def.type
    IN  CASE t = "list" ->
               SingleCall(x, "list KV namespaces", "listKVNamespaces", <<>>)
          [] t = "create" ->
               SingleCall(x, "create KV namespace", "createKVNamespace", <<c.title>>)
          [] t = "delete" ->
               SingleCall(x, "delete KV namespace", "deleteKVNamespace",
                          <<c.namespaceId>>)
          [] t = "list_keys" ->
               SingleCall(x, "list KV keys", "listKVKeys",
                          <<c.namespaceId, c.prefix, c.limit>>)
          [] t = "get" ->
               SingleCall(x, "get KV value", "getKVValue", <<c.namespaceId, c.key>>)
          [] t = "put" ->
               SingleCall(x, "put KV value", "putKVValue",
                          <<c.namespaceId, c.key, c.value>>)
          [] t = "delete_key" ->
               SingleCall(x, "delete KV key", "deleteKVKey", <<c.namespaceId, c.key>>)
          [] t = "bulk_write" ->
               LET r == JSONparse(c.kvPairs)
               IN  IF ~r.ok THEN Return(x, Failure(InvalidJsonFormat))
                   ELSE SingleCall([x EXCEPT !.locals.parsed = r.val],
                                   "bulk write KV", "bulkWriteKV",
                                   <<c.namespaceId, r.val>>)
          [] t = "bulk_delete" ->
               LET r == JSONparse(c.keys)
               IN  IF ~r.ok THEN Return(x, Failure(InvalidJsonFormat))
                   ELSE SingleCall([x EXCEPT !.locals.parsed = r.val],
                                   "bulk delete KV", "bulkDeleteKV",
                                   <<c.namespaceId, r.val>>)

\* reading .length of null throws inside execute
LengthOfNull == Err("Cannot read properties of null (reading 'length')")

\* variant: the value the call returned is dropped
KvResumeNoData(x, val) == Return(x, Success(NoData))

\* the execute of a kv task resumed with the value val of the awaited call
KvResume(x, val) ==
    LET c == x.config
        t == x.def.type
        v == x.locals.parsed
    IN  CASE t = "list" ->
               Return(x, Success([count |-> Len(val), namespaces |-> val]))
          [] t = "create" -> Return(x, Success(val))
          [] t = "delete" -> Return(x, Success([deleted |-> TRUE]))
          [] t = "list_keys" ->
               Return(x, Success([count |-> Len(val.keys), keys |-> val.keys,
                                  cursor |-> val.cursor]))
          [] t = "get" -> Return(x, Success([key |-> c.key, value |-> val]))
          [] t = "put" -> Return(x, Success([key |-> c.key, written |-> TRUE]))
          [] t = "delete_key" ->
               Return(x, Success([key |-> c.key, deleted |-> TRUE]))
          [] t = "bulk_write" ->
               IF v.t = "null" THEN Throw(x, LengthOfNull)
               ELSE Return(x, Success([count |-> length(v), written |-> TRUE]))
          [] t = "bulk_delete" ->
               IF v.t = "null" THEN Throw(x, LengthOfNull)
               ELSE Return(x, Success([count |-> length(v), deleted |-> TRUE]))

\* bulkWriteKV starts with kvPairs.map(..): an argument that is no list makes
\* the method reject before it sends anything; every other call is sent
Sends(x) ==
    ~(x.pc = "bulkWriteKV" /\ x.calls[Len(x.calls)].args[2].t # "array")

\* the part of execute that runs before its first await
StartExecute(x) ==
    LET name == x.config.workerName
        t    == x.def.type
    IN  IF x.def.plugin = "kvPlugin" THEN KvStart(x)
        ELSE IF x.def.plugin # "workersPlugin" THEN [x EXCEPT !.pc = "running"]
        ELSE CASE t = "create" ->
                    CallApi(updateProgress(x, "create worker", 1, 3),
                            "createWorker", <<name>>)
               [] t = "update" ->
                    CallApi(updateProgress(x, "find worker", 1, 3),
                            "listWorkers", <<>>)
               [] t = "delete" ->
                    CallApi(updateProgress(x, "find worker", 1, 2),
                            "listWorkers", <<>>)
               [] t = "query" ->
                    CallApi(updateProgress(x, "query worker", 1, 2),
                            "listWorkers", <<>>)
               [] t = "list" ->
                    CallApi(updateProgress(x, "list workers", 1, 2),
                            "listWorkers", <<>>)

\* variant: the upload is addressed by the configured name, as the update
\* task does, instead of by the identifier createWorker returned
CreateAfterCreateByName(x, val) ==
    LET y == [x EXCEPT !.locals.workerId = val]
    IN  CallApi(updateProgress(y, "upload script", 2, 3),
                "uploadWorkerScript", <<x.config.workerName, x.config.workerName>>)

\* createTaskType.execute, resumed after createWorker returned val
CreateAfterCreate(x, val) ==
    LET y == [x EXCEPT !.locals.workerId = val]
    IN  CallApi(updateProgress(y, "upload script", 2, 3),
                "uploadWorkerScript", <<val, x.config.workerName>>)

\* createTaskType.execute resumed with the value val of the awaited call
CreateResume(x, val) ==
    CASE x.pc = "createWorker" -> CreateAfterCreate(x, val)
      [] x.pc = "uploadWorkerScript" ->
           LET y == [x EXCEPT !.locals.versionId = val]
           IN  CallApi(updateProgress(y, "deploy", 3, 3),
                       "deployWorker", <<x.config.workerName, val>>)
      [] x.pc = "deployWorker" ->
           CallApi([x EXCEPT !.locals.deploymentId = val], "getSubdomain", <<>>)
      [] x.pc = "getSubdomain" ->
           Return(x, Success([workerId     |-> x.locals.workerId,
                              versionId    |-> x.locals.versionId,
                              deploymentId |-> x.locals.deploymentId,
                              url |-> WorkerUrl(x.config.workerName, val)]))

\* updateTaskType.execute resumed
UpdateResume(x, val) ==
    LET name == x.config.workerName
    IN  CASE x.pc = "listWorkers" ->
               IF ~Found(val, name)
                 THEN Return(x, Failure("Worker " \o name \o " not found"))
                 ELSE CallApi(updateProgress([x EXCEPT !.locals.workerId = name],
                                             "upload new script", 2, 3),
                              "uploadWorkerScript", <<name, name>>)
          [] x.pc = "uploadWorkerScript" ->
               LET y == [x EXCEPT !.locals.versionId = val]
               IN  CallApi(updateProgress(y, "deploy new version", 3, 3),
                           "deployWorker", <<name, val>>)
          [] x.pc = "deployWorker" ->
               Return(x, Success([versionId    |-> x.locals.versionId,
                                  deploymentId |-> val]))

\* deleteTaskType.execute resumed
DeleteResume(x, val) ==
    LET name == x.config.workerName
    IN  CASE x.pc = "listWorkers" ->
               IF ~Found(val, name)
                 THEN Return(x, Failure("Worker " \o name \o " not found"))
                 ELSE CallApi(updateProgress([x EXCEPT !.locals.workerId = name],
                                             "delete worker", 2, 2),
                              "deleteWorker", <<name>>)
          [] x.pc = "deleteWorker" ->
               Return(x, Success([deleted |-> TRUE]))

\* queryTaskType.execute resumed
QueryResume(x, val) ==
    LET name == x.config.workerName
    IN  CASE x.pc = "listWorkers" ->
               IF ~Found(val, name)
                 THEN Return(x, Success([found |-> FALSE]))
                 ELSE CallApi(updateProgress([x EXCEPT !.locals.workerId = name],
                                             "get subdomain", 2, 2),
                              "getSubdomain", <<>>)
          [] x.pc = "getSubdomain" ->
               Return(x, Success([found |-> TRUE, worker |-> x.locals.workerId,
                                  url |-> WorkerUrl(name, val)]))

\* listTaskType.execute resumed
ListResume(x, val) ==
    CASE x.pc = "listWorkers" ->
           CallApi(updateProgress([x EXCEPT !.locals.workers = val],
                                  "get subdomain", 2, 2),
                   "getSubdomain", <<>>)
      [] x.pc = "getSubdomain" ->
           LET kept == x.locals.workers
           IN  Return(x, Success([subdomain |-> val, count |-> Len(kept),
                                  workers |-> [i \in 1..Len(kept) |->
                                      [id |-> kept[i],
                                       url |-> WorkerUrl(kept[i], val)]]]))

VARIABLE execs      \* the executeTask invocations, by slot

execVars == <<execs>>

Slots == 1..MaxExec

\* the slots of the invocations that run side by side
Flights == 1..MaxInFlight

\* Slot numbers carry no meaning: a new invocation is given the lowest slot
\* that holds no invocation in flight.
FreeSlot(e) ==
    /\ execs[e].pc \in {"idle", "done"}
    /\ \A f \in Slots : f < e => execs[f].pc \notin {"idle", "done"}

\* variant: no check that the lookup found a handler, so handler.execute
\* is read off undefined outside the try block
executeTaskNoLookup(e, key, cfg) ==
    LET x == [IdleExec EXCEPT !.key = key, !.config = cfg]
    IN  /\ execs[e].pc \in {"idle", "done"}
        /\ IF ~MapHas(taskHandlers, key)
             THEN execs' = [execs EXCEPT ![e] = Return(x, Rejected(TypeErrorMsg))]
             ELSE execs' = [execs EXCEPT ![e] =
                     StartExecute([x EXCEPT !.def = MapGet(taskHandlers, key),
                                            !.executed = 1])]

\* variant: a key is dispatched only while no other invocation of it is in
\* flight
executeTaskExclusive(e, key, cfg) ==
    LET x == [IdleExec EXCEPT !.key = key, !.config = cfg]
    IN  /\ execs[e].pc \in {"idle", "done"}
        /\ \A f \in DOMAIN execs :
              execs[f].key = key => execs[f].pc \in {"idle", "done"}
        /\ IF ~MapHas(taskHandlers, key)
             THEN execs' = [execs EXCEPT ![e] = Return(x, Failure("unknown task type: " \o key))]
             ELSE execs' = [execs EXCEPT ![e] =
                     StartExecute([x EXCEPT !.def = MapGet(taskHandlers, key),
                                            !.executed = 1])]

\* async executeTask(taskType, context): lookup, then execute up to its
\* first await; the message for a missing handler reads "unknown task
\* type: <key>" in Chinese
executeTask(e, key, cfg) ==
    LET x == [IdleExec EXCEPT !.key = key, !.config = cfg]
    IN  /\ execs[e].pc \in {"idle", "done"}
        /\ IF ~MapHas(taskHandlers, key)
             THEN execs' = [execs EXCEPT ![e] = Return(x, Failure("unknown task type: " \o key))]
             ELSE execs' = [execs EXCEPT ![e] =
                     StartExecute([x EXCEPT !.def = MapGet(taskHandlers, key),
                                            !.executed = 1])]

\* variant: the handler is looked up again when the awaited call resolves
apiResolveLooksUp(e, val) ==
    LET x == [execs[e] EXCEPT !.returns = Append(@, val),
                              !.def = getTaskHandler(execs[e].key)]
        t == x.def.type
    IN  /\ x.pc \in ApiOps
        /\ Sends(x)
        /\ execs' = [execs EXCEPT ![e] =
              IF x.def.plugin # "workersPlugin"
                THEN Return(x, Failure("unknown task type: " \o x.key)) ELSE
              CASE t = "create" -> CreateResume(x, val)
                [] t = "update" -> UpdateResume(x, val)
                [] t = "delete" -> DeleteResume(x, val)
                [] t = "query"  -> QueryResume(x, val)
                [] t = "list"   -> ListResume(x, val)]

\* the awaited external call of slot e resolves with val
apiResolve(e, val) ==
    LET x == [execs[e] EXCEPT !.returns = Append(@, val)]
        t == x.def.type
    IN  /\ x.pc \in ApiOps
        /\ Sends(x)
        /\ execs' = [execs EXCEPT ![e] =
              IF x.def.plugin = "kvPlugin" THEN KvResume(x, val) ELSE
              CASE t = "create" -> CreateResume(x, val)
                [] t = "update" -> UpdateResume(x, val)
                [] t = "delete" -> DeleteResume(x, val)
                [] t = "query"  -> QueryResume(x, val)
                [] t = "list"   -> ListResume(x, val)]

\* variant: a rejected call is issued a second time before giving up
apiRejectRetried(e, err) ==
    /\ execs[e].pc \in ApiOps
    /\ Sends(execs[e])
    /\ execs' = [execs EXCEPT ![e] =
          Throw(CallApi(@, @.pc, @.calls[Len(@.calls)].args), err)]

\* variant: executeTask starts the task over when its call is rejected
apiRejectStartOver(e, err) ==
    /\ execs[e].pc \in ApiOps
    /\ Sends(execs[e])
    /\ execs' = [execs EXCEPT ![e] =
          StartExecute([IdleExec EXCEPT !.key = execs[e].key,
                                        !.config = execs[e].config,
                                        !.def = execs[e].def,
                                        !.executed = 1])]

\* the awaited external call of slot e rejects with err: execute has no
\* try/catch, so it rejects and executeTask's catch block runs
apiReject(e, err) ==
    /\ execs[e].pc \in ApiOps
    /\ Sends(execs[e])
    /\ execs' = [execs EXCEPT ![e] = Throw(@, err)]

\* the awaited method of slot e throws before sending a request: the
\* TypeError of kvPairs.map
apiThrows(e) ==
    /\ execs[e].pc \in ApiOps
    /\ ~Sends(execs[e])
    /\ execs' = [execs EXCEPT ![e] =
          Throw(@, IF @.locals.parsed.t = "null"
                     THEN Err("Cannot read properties of null (reading 'map')")
                     ELSE Err("kvPairs.map is not a function"))]

\* -------------------------------------------------- failures of a request
\* the options a method passes to apiRequest: getKVValue asks for the body
\* as text, every other method used by a task for the decoded JSON value
ResponseType(op) == IF op = "getKVValue" THEN "text" ELSE "json"

\* How a call can fail: the request rejects, without a response (network,
\* timeout) or with the response of an error status, or it resolves with an
\* envelope whose success is false. A method that asked for text returns
\* whatever body a resolved request carried.
\* A response body is none, an envelope { success: false, errors: [...] }
\* or another JSON value, such as a gateway's error page.
Failures(op) ==
    LET ErrorLists ==
           {<<>>, <<[message |-> "key not found"]>>, <<[message |-> ""]>>,
            <<[message |-> "first error"], [message |-> "second error"]>>}
        Envelopes == {[t |-> "envelope", errors |-> errs] : errs \in ErrorLists}
    IN  {[kind |-> "rejected", message |-> "fetch failed",
          body |-> [t |-> "none", errors |-> <<>>]]} \cup
        {[kind |-> "rejected", message |-> "404 Not Found", body |-> b] :
            b \in Envelopes \cup {[t |-> "other", errors |-> <<>>]}} \cup
        (IF ResponseType(op) = "text" THEN {}
         ELSE {[kind |-> "unsuccessful", message |-> "", body |-> b] :
                  b \in Envelopes})

\* error.data of a rejected request: the response body decoded as the
\* request's responseType, so a text request yields a string
ErrorData(op, body) ==
    IF body.t = "none" THEN body
    ELSE IF ResponseType(op) = "text" THEN [t |-> "text", errors |-> <<>>]
    ELSE body

\* a || b on strings
Or(a, b) == IF a # "" THEN a ELSE b

\* the catch block of apiRequest: the first entry of error.data.errors
\* names the message when error.data.errors is a non-empty array, otherwise
\* the error is thrown on as it is
apiRequestCatch(op, f) ==
    LET data == ErrorData(op, f.body)
    IN  IF data.t = "envelope" /\ Len(data.errors) > 0
          THEN Err(Or(data.errors[1].message, f.message))
          ELSE Err(f.message)

\* the message a method falls back to when the envelope names none
MethodFallback(op) ==
    CASE op = "listWorkers"        -> "Failed to list workers"
      [] op = "createWorker"       -> "Failed to create worker"
      [] op = "uploadWorkerScript" -> "Failed to upload script"
      [] op = "deployWorker"       -> "Failed to deploy worker"
      [] op = "deleteWorker"       -> "Failed to delete worker"
      [] op = "getSubdomain"       -> "Failed to get subdomain"
      [] op = "listKVNamespaces"   -> "Failed to list KV namespaces"
      [] op = "createKVNamespace"  -> "Failed to create KV namespace"
      [] op = "deleteKVNamespace"  -> "Failed to delete KV namespace"
      [] op = "listKVKeys"         -> "Failed to list KV keys"
      [] op = "putKVValue"         -> "Failed to put KV value"
      [] op = "deleteKVKey"        -> "Failed to delete KV key"
      [] op = "bulkWriteKV"        -> "Failed to bulk write KV"
      [] op = "bulkDeleteKV"       -> "Failed to bulk delete KV"
      [] op = "getKVValue"         -> ""

\* what the method rejects with when its request failed as f:
\* if (!response.success) throw new Error(response.errors[0]?.message || ..)
MethodError(op, f) ==
    IF f.kind = "rejected" THEN apiRequestCatch(op, f)
    ELSE Err(Or(IF f.body.errors = <<>> THEN "" ELSE f.body.errors[1].message,
                MethodFallback(op)))

\* the awaited external call of slot e fails as f
apiFails(e, f) ==
    /\ execs[e].pc \in ApiOps
    /\ Sends(execs[e])
    /\ f \in Failures(execs[e].pc)
    /\ execs' = [execs EXCEPT ![e] = Throw(@, MethodError(@.pc, f))]

\* a task of pluginA / pluginB finishes: it returns a TaskResult ...
taskReturns(e, ok) ==
    /\ execs[e].pc = "running"
    /\ execs' = [execs EXCEPT ![e] =
                    Return(@, IF ok THEN Success(NoData) ELSE Failure("declined"))]

\* ... or throws / rejects with an arbitrary value
taskThrows(e, v) ==
    /\ execs[e].pc = "running"
    /\ execs' = [execs EXCEPT ![e] = Throw(@, v)]

\* ----------------------------------------------------------------- EventBus
\* two of the kinds of SystemEventMap, and the handler functions in play
Kinds == {"plugin:registered", "task:started"}

Handlers == {"h1", "h2"}

\* what a handler does when it is called: return normally ("ok"), throw,
\* or return a promise that rejects
AllOk == [h \in Handlers |-> "ok"]

VARIABLES
    syncListeners,  \* EventBusImpl.emitter: per kind, the listener array
    asyncHandlers,  \* EventBusImpl.asyncHandlers: per kind, absent or a Set
    busCall         \* the last bus call and what happened in it

busVars == <<syncListeners, asyncHandlers, busCall>>

NoSet == [has |-> FALSE, set |-> <<>>]

\* variant: a handler already present is added again
SetAddAgain(set, h) == Append(set, h)

\* Set.add: insertion-ordered, deduplicating
SetAdd(set, h) ==
    IF \E i \in 1..Len(set) : set[i] = h THEN set ELSE Append(set, h)

\* Set.delete
SetDelete(set, h) == SelectSeq(set, LAMBDA x : x # h)

\* total number of synchronous registrations held by the emitter
SyncTotal ==
    LET RECURSIVE Sum(_)
        Sum(K) == IF K = {} THEN 0
                  ELSE LET k == CHOOSE k \in K : TRUE
                       IN  Len(syncListeners[k]) + Sum(K \ {k})
    IN  Sum(Kinds)

\* a call other than emit: nothing is delivered
BusIdle(op) ==
    [op |-> op, kind |-> "none", handler |-> "none", beh |-> AllOk,
     listeners |-> <<>>, wrapped |-> <<>>, detached |-> <<>>, invoked |-> <<>>,
     outcome |-> "returned", caught |-> {}, unhandled |-> {}]

\* the members of a kind's detached set, none when the kind has no set
DetachedOf(kind) ==
    IF asyncHandlers[kind].has THEN asyncHandlers[kind].set ELSE <<>>

\* a call other than emit, with its arguments
BusDid(op, kind, h) == [BusIdle(op) EXCEPT !.kind = kind, !.handler = h]

\* ... and with the handlers the kind held when the call was made
BusDidTo(op, kind, h) ==
    [BusDid(op, kind, h) EXCEPT
        !.listeners = [i \in 1..Len(syncListeners[kind]) |->
                          syncListeners[kind][i].handler],
                                !.detached = DetachedOf(kind)]

\* on(type, handler): emitter.on appends to the listener array
on(kind, h) ==
    /\ SyncTotal < MaxSync
    /\ syncListeners' = [syncListeners EXCEPT
                            ![kind] = Append(@, [handler |-> h, once |-> FALSE])]
    /\ busCall' = BusIdle("on")
    /\ UNCHANGED asyncHandlers

\* once(type, handler): emitter.once appends a self-removing wrapper
once(kind, h) ==
    /\ SyncTotal < MaxSync
    /\ syncListeners' = [syncListeners EXCEPT
                            ![kind] = Append(@, [handler |-> h, once |-> TRUE])]
    /\ busCall' = BusIdle("once")
    /\ UNCHANGED asyncHandlers

\* onAsync(type, handler)
onAsync(kind, h) ==
    /\ asyncHandlers' = [asyncHandlers EXCEPT
                            ![kind] = [has |-> TRUE, set |-> SetAdd(@.set, h)]]
    /\ busCall' = BusDidTo("onAsync", kind, h)
    /\ UNCHANGED syncListeners

\* emitter.off: removes the most recently added registration of h, whether
\* added by on or by once
RemoveListener(ls, h) ==
    LET hits == {i \in 1..Len(ls) : ls[i].handler = h}
    IN  IF hits = {} THEN ls
        ELSE LET pos == CHOOSE i \in hits : \A j \in hits : j <= i
             IN  [i \in 1..(Len(ls) - 1) |-> IF i < pos THEN ls[i] ELSE ls[i + 1]]

\* off(type, handler)
off(kind, h) ==
    /\ syncListeners' = [syncListeners EXCEPT ![kind] = RemoveListener(@, h)]
    /\ asyncHandlers' =
          IF asyncHandlers[kind].has
            THEN [asyncHandlers EXCEPT ![kind].set = SetDelete(@, h)]
            ELSE asyncHandlers
    /\ busCall' = BusDid("off", kind, h)

\* variant: the detached set of the kind is left in place
removeAllListenersSyncOnly(kind) ==
    /\ syncListeners' = [syncListeners EXCEPT ![kind] = <<>>]
    /\ asyncHandlers' = asyncHandlers
    /\ busCall' = BusDidTo("removeAllListeners", kind, "none")

\* removeAllListeners(type)
removeAllListeners(kind) ==
    /\ syncListeners' = [syncListeners EXCEPT ![kind] = <<>>]
    /\ asyncHandlers' = [asyncHandlers EXCEPT ![kind] = NoSet]
    /\ busCall' = BusDidTo("removeAllListeners", kind, "none")

\* removeAllListeners()
removeEveryListener ==
    /\ syncListeners' = [k \in Kinds |-> <<>>]
    /\ asyncHandlers' = [k \in Kinds |-> NoSet]
    /\ busCall' = BusIdle("removeAllListeners")

\* variant: the detached handlers are not counted
listenerCountSyncOnly(kind) == Len(syncListeners[kind])

\* listenerCount(type)
listenerCount(kind) ==
    Len(syncListeners[kind]) +
    (IF asyncHandlers[kind].has THEN Len(asyncHandlers[kind].set) ELSE 0)

\* variant: the loop goes on after a call that throws
CallsMadeAll(hs, beh, i) == Len(hs)

\* variant: the loop is left after its first call
CallsMadeFirstOnly(hs, beh, i) == IF Len(hs) = 0 THEN 0 ELSE 1

\* A loop that calls hs[1], hs[2], ... in order and is left by the first
\* call that throws: the number of calls made.
RECURSIVE CallsMade(_, _, _)
CallsMade(hs, beh, i) ==
    IF i > Len(hs) THEN Len(hs)
    ELSE IF beh[hs[i]] = "throw" THEN i
    ELSE CallsMade(hs, beh, i + 1)

\* whether the loop was left by a throw
LoopThrew(hs, beh) == \E i \in 1..Len(hs) : beh[hs[i]] = "throw"

\* variant: listener exceptions are swallowed
SyncOutcomeCaught(hs, beh) == "returned"

\* this.emitter.emit(type, payload): no try/catch around the listeners
SyncOutcome(hs, beh) == IF LoopThrew(hs, beh) THEN "threw" ELSE "returned"

\* variant: the loop is entered without checking that there are handlers
DetachedOutcomeUnguarded(hs, beh) ==
    IF hs = <<>> \/ LoopThrew(hs, beh) THEN "threw" ELSE "returned"

\* for (const handler of handlers) Promise.resolve(handler(payload)).catch(..)
\* handler(payload) is evaluated before Promise.resolve can wrap it, so a
\* handler that throws leaves the loop and emit
DetachedOutcome(hs, beh) == IF LoopThrew(hs, beh) THEN "threw" ELSE "returned"

\* variant: every listener that was called is dropped
AfterEmitDropsCalled(ls, n) == SubSeq(ls, n + 1, Len(ls))

\* variant: once-wrappers stay in the listener array
AfterEmitKeepsOnce(ls, n) == ls

\* the listener array after the emission: once-wrappers that were called
\* have removed themselves
AfterEmit(ls, n) ==
    LET keep == {i \in 1..Len(ls) : ~(i <= n /\ ls[i].once)}
        F[i \in 0..Len(ls)] ==
            IF i = 0 THEN <<>>
            ELSE IF i \in keep THEN Append(F[i - 1], ls[i]) ELSE F[i - 1]
    IN  F[Len(ls)]

\* emit(type, payload)
emit(kind, beh) ==
    LET ls   == syncListeners[kind]
        hs   == [i \in 1..Len(ls) |-> ls[i].handler]
        n    == CallsMade(hs, beh, 1)
        so   == SyncOutcome(hs, beh)
        ds   == IF so = "returned" /\ asyncHandlers[kind].has
                  THEN asyncHandlers[kind].set ELSE <<>>
        m    == CallsMade(ds, beh, 1)
        do   == DetachedOutcome(ds, beh)
    IN  /\ syncListeners' = [syncListeners EXCEPT ![kind] = AfterEmit(ls, n)]
        /\ UNCHANGED asyncHandlers
        /\ busCall' =
             [op |-> "emit", kind |-> kind, handler |-> "none", beh |-> beh,
              listeners |-> hs,
              wrapped |-> [i \in 1..Len(ls) |-> ls[i].once],
              detached |-> IF asyncHandlers[kind].has
                             THEN asyncHandlers[kind].set ELSE <<>>,
              invoked |-> [i \in 1..n |-> <<hs[i], "sync">>] \o
                          [i \in 1..m |-> <<ds[i], "detached">>],
              outcome |-> IF so = "threw" \/ do = "threw"
                            THEN "threw" ELSE "returned",
              caught |-> {ds[i] : i \in {j \in 1..m : beh[ds[j]] = "reject"}},
              unhandled |-> {hs[i] : i \in {j \in 1..n : beh[hs[j]] = "reject"}}]

\* the registry and the bus as constructed, no invocation made
Init ==
    /\ plugins = <<>>
    /\ taskHandlers = <<>>
    /\ lastOp = [op |-> "new", rt |-> "none", plugin |-> "none", ret |-> TRUE]
    /\ firstRegistered = <<>>
    /\ boot = [pc |-> 0, outcome |-> "none", announced |-> <<>>, counted |-> <<>>]
    /\ cloud = [workers |-> {"foo"}, answers |-> [e \in Flights |-> <<>>]]
    /\ execs = [e \in Slots \cup Flights |-> IdleExec]
    /\ syncListeners = [k \in Kinds |-> <<>>]
    /\ asyncHandlers = [k \in Kinds |-> NoSet]
    /\ busCall = BusIdle("new")

vars == <<plugins, taskHandlers, lastOp, firstRegistered, boot, cloud, execs,
          syncListeners, asyncHandlers, busCall>>

\* ------------------------------------------------- registry and dispatch
Register ==
    /\ \E p \in PluginIds : register(p)
    /\ UNCHANGED <<histVars, execVars, busVars>>

Unregister ==
    /\ \E rt \in ResourceTypes : unregister(rt)
    /\ UNCHANGED <<histVars, execVars, busVars>>

\* executeTask on any key of resourceType "x", registered or not
ExecuteTask ==
    /\ \E e \in Slots, key \in PluginKeys :
          FreeSlot(e) /\ executeTask(e, key, [workerName |-> "foo"])
    /\ UNCHANGED <<regVars, busVars>>

TaskReturns ==
    /\ \E e \in Slots, ok \in BOOLEAN : taskReturns(e, ok)
    /\ UNCHANGED <<regVars, busVars>>

TaskThrows ==
    /\ \E e \in Slots, v \in ThrownValues : taskThrows(e, v)
    /\ UNCHANGED <<regVars, busVars>>

NextRegistry ==
    \/ Register
    \/ Unregister
    \/ ExecuteTask
    \/ TaskReturns
    \/ TaskThrows

SpecRegistry == Init /\ [][NextRegistry]_vars

\* ------------------------------------------------ registration and removal
\* register and unregister, with the history of first registrations kept
RegisterRecorded ==
    /\ \E p \in PluginIds :
          /\ register(p)
          /\ firstRegistered' =
                IF \E i \in 1..Len(firstRegistered) :
                      firstRegistered[i] = resourceType(p)
                  THEN firstRegistered
                  ELSE Append(firstRegistered, resourceType(p))
    /\ UNCHANGED <<boot, cloud, execVars, busVars>>

NextPlugins ==
    \/ RegisterRecorded
    \/ Unregister

SpecPlugins == Init /\ [][NextPlugins]_vars

\* ------------------------------------------------- the workers plugin's tasks
RegisterWorkers ==
    /\ register("workersPlugin")
    /\ UNCHANGED <<histVars, execVars, busVars>>

ExecuteWorkersTask ==
    /\ \E e \in Slots, cfg \in Configs,
          t \in {"create", "update", "delete", "query", "list"} :
          FreeSlot(e) /\ executeTask(e, FullType("workers", t), cfg)
    /\ UNCHANGED <<regVars, busVars>>

ApiResolve ==
    /\ \E e \in Slots :
          /\ execs[e].pc \in ApiOps
          /\ \E val \in ApiValues(execs[e].pc) : apiResolve(e, val)
    /\ UNCHANGED <<regVars, busVars>>

ApiReject ==
    /\ \E e \in Slots, err \in ApiErrors : apiReject(e, err)
    /\ UNCHANGED <<regVars, busVars>>

NextTasks ==
    \/ RegisterWorkers
    \/ ExecuteWorkersTask
    \/ ApiResolve
    \/ ApiReject

SpecTasks == Init /\ [][NextTasks]_vars

\* ------------------------------------------------------ the kv plugin's tasks
RegisterKv ==
    /\ register("kvPlugin")
    /\ UNCHANGED <<histVars, execVars, busVars>>

ExecuteKvTask ==
    /\ \E e \in Slots, type \in {TaskTypeNames("kvPlugin")[i] : i \in 1..9} :
          \E cfg \in KvConfigs(type) :
             FreeSlot(e) /\ executeTask(e, FullType("kv", type), cfg)
    /\ UNCHANGED <<regVars, busVars>>

ApiThrows ==
    /\ \E e \in Slots : apiThrows(e)
    /\ UNCHANGED <<regVars, busVars>>

NextKv ==
    \/ RegisterKv
    \/ ExecuteKvTask
    \/ ApiResolve
    \/ ApiReject
    \/ ApiThrows

SpecKv == Init /\ [][NextKv]_vars

\* ------------------------------------------ the tasks of both built-in plugins
\* one invocation at a time: executions share no state (every call gets its
\* own context), so what one execution reports is decided by that call alone
ExecuteBuiltinTask ==
    /\ \/ \E cfg \in Configs, t \in {"create", "update", "delete", "query", "list"} :
             FreeSlot(1) /\ executeTask(1, FullType("workers", t), cfg)
       \/ \E type \in {TaskTypeNames("kvPlugin")[i] : i \in 1..9} :
             \E cfg \in KvConfigs(type) :
                FreeSlot(1) /\ executeTask(1, FullType("kv", type), cfg)
    /\ UNCHANGED <<regVars, busVars>>

NextBuiltin ==
    \/ RegisterWorkers
    \/ RegisterKv
    \/ ExecuteBuiltinTask
    \/ ApiResolve
    \/ ApiReject
    \/ ApiThrows

SpecBuiltin == Init /\ [][NextBuiltin]_vars

\* the same runs, where a call that is pending is settled in the end: the
\* request resolves, rejects (at the latest when its timeout of 30 s runs
\* out) or the method throws, and the continuation of the await is run
SpecBuiltinSettled ==
    SpecBuiltin /\ WF_vars(ApiResolve \/ ApiReject \/ ApiThrows)

\* ------------------------------- the registry changed under a running task
\* the workers plugin is registered, replaced by pluginW (which claims the
\* resourceType workers with tasks delete and update of its own) or removed
ChangeWorkers ==
    /\ \/ \E p \in {"workersPlugin", "pluginW"} : register(p)
       \/ unregister("workers")
    /\ UNCHANGED <<histVars, execVars, busVars>>

NextReplaced ==
    \/ ChangeWorkers
    \/ ExecuteBuiltinTask
    \/ ApiResolve
    \/ ApiReject
    \/ TaskReturns

SpecReplaced == Init /\ [][NextReplaced]_vars

\* ------------------------------------------- built-in tasks whose calls fail
AllFailures == UNION {Failures(op) : op \in ApiOps}

ApiFails ==
    /\ \E e \in Slots, f \in AllFailures : apiFails(e, f)
    /\ UNCHANGED <<regVars, busVars>>

NextFailures ==
    \/ RegisterWorkers
    \/ RegisterKv
    \/ ExecuteWorkersTask
    \/ ExecuteKvTask
    \/ ApiResolve
    \/ ApiFails
    \/ ApiThrows

SpecFailures == Init /\ [][NextFailures]_vars

\* ------------------------------------------------- invocations side by side
\* executeTask on the creation and deletion of worker foo, in any free slot
ExecuteInFlight ==
    /\ \E e \in Flights, t \in {"create", "delete"} :
          /\ \A f \in Flights : f < e => execs[f].pc \notin {"idle", "done"}
          /\ executeTask(e, FullType("workers", t), [workerName |-> "foo"])
    /\ UNCHANGED <<regVars, busVars>>

ResolveInFlight ==
    /\ \E e \in Flights :
          /\ execs[e].pc \in ApiOps
          /\ \E val \in ApiValues(execs[e].pc) : apiResolve(e, val)
    /\ UNCHANGED <<regVars, busVars>>

RejectInFlight ==
    /\ \E e \in Flights, err \in ApiErrors : apiReject(e, err)
    /\ UNCHANGED <<regVars, busVars>>

NextConcurrent ==
    \/ RegisterWorkers
    \/ ExecuteInFlight
    \/ ResolveInFlight
    \/ RejectInFlight

SpecConcurrent == Init /\ [][NextConcurrent]_vars

\* ------------------------------------- invocations that act on the same worker
\* executeTask on the deletion and the update of worker foo, side by side
ExecuteOnFoo ==
    /\ \E e \in Flights, t \in {"delete", "update"} :
          /\ \A f \in Flights : f < e => execs[f].pc \notin {"idle", "done"}
          /\ executeTask(e, FullType("workers", t), [workerName |-> "foo"])
    /\ UNCHANGED <<regVars, busVars>>

\* the service handles the request of invocation e against the account as
\* it is at that moment; the answer is on its way back
ServeRequest ==
    /\ \E e \in Flights :
          LET op   == execs[e].pc
              name == execs[e].config.workerName
              Ok(v) == <<[ok |-> TRUE, val |-> v, err |-> Err("")]>>
              NotFound == <<[ok |-> FALSE, val |-> "",
                             err |-> Err("Worker not found")]>>
              held == name \in cloud.workers
              SetToSeq(S) == IF S = {} THEN <<>> ELSE <<CHOOSE w \in S : TRUE>>
          IN  /\ op \in {"listWorkers", "deleteWorker", "uploadWorkerScript",
                         "deployWorker"}
              /\ cloud.answers[e] = <<>>
              /\ cloud' =
                    [workers |-> IF op = "deleteWorker"
                                   THEN cloud.workers \ {name} ELSE cloud.workers,
                     answers |-> [cloud.answers EXCEPT ![e] =
                        CASE op = "listWorkers" -> Ok(SetToSeq(cloud.workers))
                          [] op = "deleteWorker" ->
                               IF held THEN Ok("void") ELSE NotFound
                          [] op = "uploadWorkerScript" ->
                               IF held THEN Ok("v1") ELSE NotFound
                          [] op = "deployWorker" ->
                               IF held THEN Ok("d1") ELSE NotFound]]
    /\ UNCHANGED <<plugins, taskHandlers, lastOp, firstRegistered, boot,
                   execVars, busVars>>

\* the answer reaches invocation e: its await resolves or rejects and the
\* task runs on to its next call or to its end
DeliverAnswer ==
    /\ \E e \in Flights :
          /\ cloud.answers[e] # <<>>
          /\ IF cloud.answers[e][1].ok
                THEN apiResolve(e, cloud.answers[e][1].val)
                ELSE apiReject(e, cloud.answers[e][1].err)
          /\ cloud' = [cloud EXCEPT !.answers[e] = <<>>]
    /\ UNCHANGED <<plugins, taskHandlers, lastOp, firstRegistered, boot, busVars>>

NextOnFoo ==
    \/ RegisterWorkers
    \/ ExecuteOnFoo
    \/ ServeRequest
    \/ DeliverAnswer

SpecOnFoo == Init /\ [][NextOnFoo]_vars

\* --------------------------------------------- plugins whose names hold a colon
\* resourceType and type are plain strings: pluginC declares resourceType
\* "x:a" with type "b", pluginD resourceType "x" with types "a:b" and "c"
ColonPluginIds == {"pluginA", "pluginC", "pluginD"}

RegisterColon ==
    /\ \E p \in ColonPluginIds : register(p)
    /\ UNCHANGED <<histVars, execVars, busVars>>

UnregisterColon ==
    /\ \E rt \in {resourceType(p) : p \in ColonPluginIds} : unregister(rt)
    /\ UNCHANGED <<histVars, execVars, busVars>>

ExecuteColonTask ==
    /\ \E e \in Slots, key \in {"x:a:b", "x:c"} :
          FreeSlot(e) /\ executeTask(e, key, [workerName |-> "foo"])
    /\ UNCHANGED <<regVars, busVars>>

NextColon ==
    \/ RegisterColon
    \/ UnregisterColon
    \/ ExecuteColonTask
    \/ TaskReturns
    \/ TaskThrows

SpecColon == Init /\ [][NextColon]_vars

\* ------------------------------------------------------------ the event bus
\* variant: each plugin is announced before it is registered
BuiltinStepsAnnounceFirst ==
    << [do |-> "emit", plugin |-> "workersPlugin"],
       [do |-> "register", plugin |-> "workersPlugin"],
       [do |-> "emit", plugin |-> "kvPlugin"],
       [do |-> "register", plugin |-> "kvPlugin"] >>

\* the statements of registerBuiltinPlugins, in order
BuiltinSteps ==
    << [do |-> "register", plugin |-> "workersPlugin"],
       [do |-> "emit", plugin |-> "workersPlugin"],
       [do |-> "register", plugin |-> "kvPlugin"],
       [do |-> "emit", plugin |-> "kvPlugin"] >>

\* registerBuiltinPlugins is not running
BootIdle == boot.outcome # "running"

\* registerBuiltinPlugins(), one statement at a time; it is synchronous, so
\* nothing else runs between its statements. An emission that throws ends
\* the function; after the last emission the two lengths are read.
registerBuiltinPlugins ==
    LET b    == IF BootIdle
                  THEN [pc |-> 0, outcome |-> "running", announced |-> <<>>,
                        counted |-> <<>>]
                  ELSE boot
        step == BuiltinSteps[b.pc + 1]
        p    == step.plugin
    IN  IF step.do = "register"
          THEN /\ register(p)
               /\ boot' = [b EXCEPT !.pc = @ + 1]
               /\ UNCHANGED <<firstRegistered, cloud, execVars, busVars>>
          ELSE /\ \E beh \in [Handlers -> {"ok", "throw", "reject"}] :
                     /\ \A h \in Handlers :
                           beh[h] = "reject" =>
                              \E i \in 1..Len(DetachedOf("plugin:registered")) :
                                 DetachedOf("plugin:registered")[i] = h
                     /\ emit("plugin:registered", beh)
               /\ boot' =
                     [b EXCEPT
                        !.pc = @ + 1,
                        !.announced =
                           Append(@, [resourceType |-> resourceType(p),
                                      name |-> PluginInfo(p).name,
                                      registered |-> getPlugin(resourceType(p))]),
                        !.outcome =
                           IF busCall'.outcome = "threw" THEN "threw"
                           ELSE IF b.pc + 1 = Len(BuiltinSteps) THEN "returned"
                           ELSE "running",
                        !.counted =
                           IF busCall'.outcome # "threw" /\ b.pc + 1 = Len(BuiltinSteps)
                             THEN <<Len(getAllPlugins), Len(getAllTaskTypes)>>
                             ELSE <<>>]
               /\ UNCHANGED <<plugins, taskHandlers, lastOp, firstRegistered, cloud,
                               execVars>>

On == (\E k \in Kinds, h \in Handlers : on(k, h)) /\ UNCHANGED <<regVars, execVars>>

Once == (\E k \in Kinds, h \in Handlers : once(k, h)) /\ UNCHANGED <<regVars, execVars>>

OnAsync == (\E k \in Kinds, h \in Handlers : onAsync(k, h)) /\ UNCHANGED <<regVars, execVars>>

Off == (\E k \in Kinds, h \in Handlers : off(k, h)) /\ UNCHANGED <<regVars, execVars>>

RemoveAllListeners ==
    /\ (removeEveryListener \/ \E k \in Kinds : removeAllListeners(k))
    /\ UNCHANGED <<regVars, execVars>>

\* the handlers registered for a kind, synchronously or detached
Registered(kind) ==
    {syncListeners[kind][i].handler : i \in 1..Len(syncListeners[kind])} \cup
    {asyncHandlers[kind].set[i] : i \in 1..Len(asyncHandlers[kind].set)}

\* every kind, every behaviour of the handlers registered for it; the
\* promise a handler returns is looked at only when it is called as a
\* detached handler
Emit ==
    /\ \E k \in Kinds, beh \in [Handlers -> {"ok", "throw", "reject"}] :
          /\ \A h \in Handlers \ Registered(k) : beh[h] = "ok"
          /\ \A h \in Handlers :
                beh[h] = "reject" =>
                   \E i \in 1..Len(DetachedOf(k)) : DetachedOf(k)[i] = h
          /\ emit(k, beh)
    /\ UNCHANGED <<regVars, execVars>>

NextBus ==
    \/ On
    \/ Once
    \/ OnAsync
    \/ Off
    \/ RemoveAllListeners
    \/ Emit

SpecBus == Init /\ [][NextBus]_vars

\* registrations and emissions only: handlers are added, never taken away
\* by the caller, so what an emission removes is all that is removed
NextEmissions ==
    \/ On
    \/ Once
    \/ OnAsync
    \/ Emit

SpecEmissions == Init /\ [][NextEmissions]_vars

\* --------------------------------------------------- registration at start-up
\* handlers subscribe to plugin:registered while the function is not running
Subscribe ==
    /\ BootIdle
    /\ \E h \in Handlers :
          \/ on("plugin:registered", h)
          \/ once("plugin:registered", h)
          \/ onAsync("plugin:registered", h)
    /\ UNCHANGED <<regVars, execVars>>

NextBootstrap ==
    \/ Subscribe
    \/ registerBuiltinPlugins

SpecBootstrap == Init /\ [][NextBootstrap]_vars

\* ------------------------------------------ handlers that call the bus back
\* What a handler does the first time it is called (later calls return at
\* once): return ("ok"), emit the kind it was called for, or register the
\* other handler for that kind with on or with onAsync.
\*
\* variant: a once wrapper calls its listener whenever it is called
onceWrapperFiredNever(st, entry) == FALSE

\* events.once: the wrapper removes itself and sets fired before it calls
\* the listener; a wrapper still held by a running emission's copy of the
\* listener array has fired already and returns without calling it
onceWrapperFired(st, entry) == entry.id \in st.fired

\* One synchronous run of emit(type, payload) with everything the handlers
\* call from inside it. st.stack holds the emit calls in progress, the
\* innermost last; a frame is the copy of the listener array that
\* EventEmitter.emit iterates and then the position in the live Set of
\* detached handlers that the for..of loop has reached.
RECURSIVE Run(_, _)
Run(st, beh) ==
    LET d == Len(st.stack)
        \* emit is entered: EventEmitter.emit copies the listener array
        Begin(s) ==
           [s EXCEPT
              !.started = Append(@, [sync |-> {s.ls[i].handler : i \in 1..Len(s.ls)},
                                     detached |-> {s.as.set[i] : i \in 1..Len(s.as.set)}]),
              !.stack = Append(@, [no |-> Len(s.started) + 1, phase |-> "sync",
                                   snap |-> s.ls, i |-> 1])]
    IN  IF st.started = <<>> THEN Run(Begin(st), beh)
        ELSE IF d = 0 THEN st
        ELSE
        LET f == st.stack[d]
            \* the loop variable of the innermost emit moves on
            s0 == [st EXCEPT !.stack[d].i = @ + 1]
            \* handler h is called by emission f.no
            Called(s, h, route, id) ==
               LET s1 == [s EXCEPT !.log = Append(@, [handler |-> h, route |-> route,
                                                      emission |-> f.no, id |-> id])]
                   s2 == [s1 EXCEPT !.acted = @ \cup {h}]
                   other == CHOOSE g \in Handlers : g # h
               IN  IF h \in s.acted \/ beh[h] = "ok" THEN s1
                   ELSE CASE beh[h] = "on" ->
                               [s2 EXCEPT !.ls = Append(@, [handler |-> other,
                                                            once |-> FALSE,
                                                            id |-> s2.nextId]),
                                          !.nextId = @ + 1]
                          [] beh[h] = "onAsync" ->
                               [s2 EXCEPT !.as = [has |-> TRUE,
                                                  set |-> SetAdd(@.set, other)]]
                          [] beh[h] = "emit" -> Begin(s2)
        IN  IF f.phase = "sync" THEN
               IF f.i > Len(f.snap)
                 \* const handlers = this.asyncHandlers.get(type)
                 THEN Run([st EXCEPT !.stack[d].phase = "detached",
                                     !.stack[d].i = 1], beh)
               ELSE LET e == f.snap[f.i]
                    IN  IF ~e.once THEN Run(Called(s0, e.handler, "sync", e.id), beh)
                        ELSE IF onceWrapperFired(s0, e) THEN Run(s0, beh)
                        ELSE Run(Called([s0 EXCEPT
                                           !.ls = SelectSeq(@, LAMBDA x : x.id # e.id),
                                           !.fired = @ \cup {e.id}],
                                        e.handler, "sync", e.id), beh)
            ELSE IF st.as.has /\ f.i <= Len(st.as.set)
                 \* for (const handler of handlers): the Set itself is iterated
                 THEN Run(Called(s0, st.as.set[f.i], "detached", 0), beh)
                 ELSE Run([st EXCEPT !.stack = SubSeq(@, 1, d - 1)], beh)

\* emit(type, payload) from outside any handler
EmitReentrant ==
    /\ \E kind \in Kinds, beh \in [Handlers -> {"ok", "emit", "on", "onAsync"}] :
          LET ls0 == [i \in 1..Len(syncListeners[kind]) |->
                         [handler |-> syncListeners[kind][i].handler,
                          once |-> syncListeners[kind][i].once, id |-> i]]
          IN  \E end \in {Run([ls |-> ls0, as |-> asyncHandlers[kind],
                                 fired |-> {}, acted |-> {}, log |-> <<>>,
                                 started |-> <<>>, stack |-> <<>>,
                                 nextId |-> Len(ls0) + 1], beh)} :
                 /\ \A h \in Handlers : h \notin end.acted => beh[h] = "ok"
                 /\ SyncTotal - Len(ls0) + Len(end.ls) <= MaxSync
                 /\ syncListeners' = [syncListeners EXCEPT ![kind] =
                       [i \in 1..Len(end.ls) |-> [handler |-> end.ls[i].handler,
                                                  once |-> end.ls[i].once]]]
                 /\ asyncHandlers' = [asyncHandlers EXCEPT ![kind] = end.as]
                 /\ busCall' = [op |-> "emit", kind |-> kind, beh |-> beh,
                                listeners |-> ls0, invoked |-> end.log,
                                started |-> end.started]
    /\ UNCHANGED <<regVars, execVars>>

\* handlers are registered for plugin:registered from outside any handler
NextReentrant ==
    \/ Subscribe
    \/ EmitReentrant

SpecReentrant == Init /\ [][NextReentrant]_vars

\* -------------------------------------- the event bus with handlers that return
\* every kind, with handlers that all return normally
EmitOk ==
    /\ \E k \in Kinds : emit(k, AllOk)
    /\ UNCHANGED <<regVars, execVars>>

NextSubscriptions ==
    \/ On
    \/ Once
    \/ OnAsync
    \/ Off
    \/ RemoveAllListeners
    \/ EmitOk

SpecSubscriptions == Init /\ [][NextSubscriptions]_vars

\* ================================================================= properties

\* the progress reports of an execution as (current, total) pairs
Reported(x) == [i \in 1..Len(x.progress) |-> <<x.progress[i].current, x.progress[i].total>>]

\* C1: whatever value a registered task's execute throws or rejects with,
\* executeTask resolves with success = false and the value's message (the
\* generic message when it has none); executeTask itself never rejects.
C1_ThrowBecomesFailedResult ==
    [][\A e \in Slots, v \in ThrownValues :
          taskThrows(e, v) =>
             LET r == execs'[e].result
             IN  /\ r.state = "resolved"
                 /\ r.success = FALSE
                 /\ r.error = IF v.hasMessage /\ v.message # ""
                                THEN v.message ELSE "task execution failed"]_vars

\* C2: executeTask on a key that is not in the task index resolves with
\* success = false and an error that names the key, runs no task definition
\* and issues no external call.
C2_UnknownKeyFails ==
    [][\A e \in Slots, key \in PluginKeys :
          (/\ ~hasTaskType(key)
           /\ execs'[e].key = key
           /\ executeTask(e, key, [workerName |-> "foo"])) =>
             LET x == execs'[e]
             IN  /\ x.pc = "done"
                 /\ x.result.state = "resolved"
                 /\ x.result.success = FALSE
                 /\ x.result.error = "unknown task type: " \o key
                 /\ x.executed = 0
                 /\ x.def = NoDef
                 /\ x.calls = <<>>
                 /\ x.progress = <<>>]_vars

\* an execution that was dispatched on a key nobody had registered
C2_Witness ==
    \E e \in Slots :
       /\ execs[e].pc = "done"
       /\ execs[e].key = "x:c"
       /\ execs[e].executed = 0
       /\ execs[e].result.error = "unknown task type: x:c"
       /\ MapHas(plugins, "x")

\* C6: registering P2 under a resourceType that P1 holds makes getPlugin
\* return P2 and makes every key resourceType:type that P2 declares map to
\* P2's definition; executeTask on such a key then runs P2's definition.
C6_ReRegisterReplaces ==
    [][/\ \A p2 \in PluginIds :
            (/\ lastOp'.plugin = p2
             /\ MapHas(plugins, resourceType(p2))
             /\ register(p2)) =>
               /\ getPlugin(resourceType(p2))' = p2
               /\ \A i \in 1..Len(TaskTypeNames(p2)) :
                     getTaskHandler(FullType(resourceType(p2), TaskTypeNames(p2)[i]))'
                        = [plugin |-> p2, type |-> TaskTypeNames(p2)[i]]
       /\ \A e \in Slots :
            (execs[e].pc # "running" /\ execs'[e].pc = "running") =>
               \A p \in PluginIds, i \in 1..2 :
                  (/\ getPlugin(resourceType(p)) = p
                   /\ execs'[e].key = FullType(resourceType(p), TaskTypeNames(p)[i]))
                  => execs'[e].def = [plugin |-> p, type |-> TaskTypeNames(p)[i]]
      ]_vars

\* pluginB has replaced pluginA (whose key x:b is still indexed) and a task
\* dispatched on the shared key x:a runs pluginB's definition
C6_Witness ==
    /\ lastOp.op = "register"
    /\ lastOp.plugin = "pluginB"
    /\ getPlugin("x") = "pluginB"
    /\ hasTaskType("x:b")
    /\ getTaskHandler("x:a").plugin = "pluginB"

\* C7: unregister of a registered resourceType returns true; afterwards the
\* plugin is absent and none of the composite keys of the removed plugin is
\* found by hasTaskType or getTaskHandler.
C7_UnregisterRemoves ==
    [][\A rt \in ResourceTypes, p \in PluginIds :
          (lastOp'.plugin = p /\ getPlugin(rt) = p /\ unregister(rt)) =>
             /\ lastOp'.ret = TRUE
             /\ getPlugin(rt)' = "undefined"
             /\ \A i \in 1..Len(TaskTypeNames(p)) :
                  LET key == FullType(rt, TaskTypeNames(p)[i])
                  IN  /\ ~hasTaskType(key)'
                      /\ getTaskHandler(key)' = NoDef]_vars

C7_Witness ==
    /\ lastOp = [op |-> "unregister", rt |-> "x", plugin |-> "pluginA", ret |-> TRUE]
    /\ ~MapHas(plugins, "x")
    /\ MapHas(plugins, "workers")

\* C8: unregister of a resourceType that is not registered returns false and
\* leaves getAllPlugins and getAllTaskTypes as they were.
C8_UnregisterAbsentNoChange ==
    [][\A rt \in ResourceTypes :
          (lastOp'.rt = rt /\ ~MapHas(plugins, rt) /\ unregister(rt)) =>
             /\ lastOp'.ret = FALSE
             /\ getAllPlugins' = getAllPlugins
             /\ getAllTaskTypes' = getAllTaskTypes]_vars

C8_Witness ==
    /\ lastOp.op = "unregister"
    /\ lastOp.ret = FALSE
    /\ lastOp.rt = "x"
    /\ Len(plugins) = 1
    /\ Len(taskHandlers) >= 5

\* the handlers an emission found registered for its kind
SyncAtCall == busCall.listeners

DetachedAtCall == busCall.detached

\* how many times handler h was called in the emission, by delivery style
Calls(h, style) ==
    Cardinality({i \in 1..Len(busCall.invoked) : busCall.invoked[i] = <<h, style>>})

\* C3: when a detached handler fails during an emission, by throwing or by
\* returning a promise that rejects, emit still returns normally and every
\* handler registered for the kind, synchronous or detached, is invoked.
C3_DetachedFailureIsolated ==
    (/\ busCall.op = "emit"
     /\ \A i \in 1..Len(SyncAtCall) : busCall.beh[SyncAtCall[i]] # "throw"
     /\ \E i \in 1..Len(DetachedAtCall) :
           busCall.beh[DetachedAtCall[i]] \in {"throw", "reject"})
    => /\ busCall.outcome = "returned"
       /\ \A i \in 1..Len(DetachedAtCall) : Calls(DetachedAtCall[i], "detached") = 1
       /\ \A i \in 1..Len(SyncAtCall) : Calls(SyncAtCall[i], "sync") >= 1

\* C4: when a synchronous handler (on or once) throws during emit, the
\* exception reaches the caller of emit: the bus neither catches nor logs it.
C4_SyncThrowPropagates ==
    (/\ busCall.op = "emit"
     /\ \E i \in 1..Len(SyncAtCall) : busCall.beh[SyncAtCall[i]] = "throw")
    => /\ busCall.outcome = "threw"
       /\ busCall.caught = {}
       /\ busCall.invoked # <<>>
       /\ LET last == busCall.invoked[Len(busCall.invoked)]
          IN  last[2] = "sync" /\ busCall.beh[last[1]] = "throw"

\* a throwing listener was reached after another listener had run
C4_Witness ==
    /\ busCall.op = "emit"
    /\ busCall.outcome = "threw"
    /\ Len(busCall.invoked) = 2
    /\ busCall.beh[busCall.invoked[2][1]] = "throw"
    /\ busCall.detached # <<>>

\* C5: when no handler throws, emit calls the synchronous registrations of
\* the kind once each, in registration order, then the detached handlers of
\* the kind once each, and nothing else; it returns normally.
C5_DeliveryOrder ==
    (/\ busCall.op = "emit"
     /\ \A i \in 1..Len(SyncAtCall) : busCall.beh[SyncAtCall[i]] # "throw"
     /\ \A i \in 1..Len(DetachedAtCall) : busCall.beh[DetachedAtCall[i]] # "throw")
    => LET n == Len(SyncAtCall)
           m == Len(DetachedAtCall)
       IN  /\ busCall.outcome = "returned"
           /\ Len(busCall.invoked) = n + m
           /\ \A i \in 1..n : busCall.invoked[i] = <<SyncAtCall[i], "sync">>
           /\ \A i \in (n + 1)..(n + m) : busCall.invoked[i][2] = "detached"
           /\ \A i \in 1..m : Calls(DetachedAtCall[i], "detached") = 1

\* two listeners and a detached handler were delivered to while the other
\* kind held a registration that was not
C5_Witness ==
    /\ busCall.op = "emit"
    /\ busCall.outcome = "returned"
    /\ Len(busCall.listeners) = 2
    /\ busCall.listeners[1] # busCall.listeners[2]
    /\ Len(busCall.invoked) = 3
    /\ \E k \in Kinds \ {busCall.kind} : listenerCount(k) > 0

\* C9: a worker creation whose four external calls all succeeded has reported
\* progress (1,3), (2,3), (3,3) and resolves with success = true and the
\* identifiers the create, upload and deploy calls returned, plus the url
\* built from the configured name and the subdomain.
C9_CreateSucceeds ==
    \A e \in Slots :
       LET x == execs[e]
       IN  (/\ x.def = [plugin |-> "workersPlugin", type |-> "create"]
            /\ Len(x.returns) = 4)
           => /\ x.pc = "done"
              /\ Reported(x) = << <<1, 3>>, <<2, 3>>, <<3, 3>> >>
              /\ x.result.state = "resolved"
              /\ x.result.success = TRUE
              /\ x.result.data =
                   [workerId     |-> x.returns[1],
                    versionId    |-> x.returns[2],
                    deploymentId |-> x.returns[3],
                    url |-> "https://" \o x.config.workerName \o "." \o
                            x.returns[4] \o ".workers.dev"]

C9_Witness ==
    \E e \in Slots :
       /\ execs[e].key = "workers:create"
       /\ execs[e].result.success
       /\ execs[e].result.data.url = "https://bar.acme.workers.dev"
       /\ execs[e].result.data.workerId = "id2"
       /\ execs[e].result.data.versionId = "v2"

\* C10: a creation calls create, upload, deploy in that order, each only
\* after the previous call succeeded and with the identifier it returned;
\* when one of the calls fails the execution ends at once in a failed result
\* and no further external call is made.
C10_CreateSequential ==
    [][\A e \in Slots :
          LET x == execs'[e]
              \* the calls a creation makes, in order, given what came back
              CreateCalls ==
                 << [op |-> "createWorker", args |-> <<x.config.workerName>>],
                    [op |-> "uploadWorkerScript",
                     args |-> <<IF Len(x.returns) >= 1 THEN x.returns[1] ELSE "",
                                x.config.workerName>>],
                    [op |-> "deployWorker",
                     args |-> <<x.config.workerName,
                                IF Len(x.returns) >= 2 THEN x.returns[2] ELSE "">>],
                    [op |-> "getSubdomain", args |-> <<>>] >>
          IN  x.def = [plugin |-> "workersPlugin", type |-> "create"] =>
                /\ Len(x.calls) <= 4
                /\ x.calls = SubSeq(CreateCalls, 1, Len(x.calls))
                /\ Len(x.calls) <= Len(x.returns) + 1
                /\ \A err \in ApiErrors :
                      (apiReject(e, err) /\ Len(x.calls) <= 3) =>
                         /\ x.pc = "done"
                         /\ x.result.state = "resolved"
                         /\ x.result.success = FALSE
                         /\ x.result.error = err.message
                         /\ x.calls = execs[e].calls
                /\ (x.pc = "done" /\ Len(x.calls) = Len(execs[e].calls) + 1) =>
                      execs[e].pc \in {"idle", "done"}]_vars

\* the upload call failed after create had returned id2
C10_Witness ==
    \E e \in Slots :
       /\ execs[e].key = "workers:create"
       /\ execs[e].pc = "done"
       /\ execs[e].result.success = FALSE
       /\ Len(execs[e].calls) = 2
       /\ execs[e].calls[2].args[1] = "id2"
       /\ execs[e].returns = <<"id2">>

\* the operations an execution has called, in order
CalledOps(x) == [i \in 1..Len(x.calls) |-> x.calls[i].op]

\* C11: within one executeTask call execute is invoked exactly once; an
\* external operation that failed is not called again, and no compensating
\* call follows the failure of a later step: the calls made before the
\* failure are all the calls of the execution.
C11_NoRetryNoCompensation ==
    [][\A e \in Slots :
          LET x == execs'[e]
          IN  /\ x.executed = (IF x.def = NoDef THEN 0 ELSE 1)
              /\ \A i, j \in 1..Len(x.calls) : x.calls[i].op = x.calls[j].op => i = j
              /\ x.def.type = "create" =>
                    \A i \in 1..Len(x.calls) : x.calls[i].op # "deleteWorker"
              /\ \A err \in ApiErrors :
                    (execs[e].pc \in ApiOps /\ x.pc = "done" /\ apiReject(e, err)) =>
                       /\ x.calls = execs[e].calls
                       /\ x.returns = execs[e].returns
                       /\ x.executed = 1
                       /\ x.result.success = FALSE
              /\ (execs[e].pc = "done" /\ x.key = execs[e].key /\ x.pc = "done") =>
                    (x = execs[e] \/ Len(x.calls) = 0)]_vars

\* the deploy step of a creation failed after create and upload had
\* succeeded: three calls, none of them a delete
C11_Witness ==
    \E e \in Slots :
       /\ execs[e].key = "workers:create"
       /\ execs[e].pc = "done"
       /\ execs[e].result.success = FALSE
       /\ execs[e].executed = 1
       /\ CalledOps(execs[e]) = <<"createWorker", "uploadWorkerScript", "deployWorker">>
       /\ Len(execs[e].returns) = 2

\* C13: update, delete and query first list the workers; when the configured
\* name is not in the list, update and delete resolve with a failed result
\* "Worker <name> not found", query resolves with found = false, and the list
\* call is the only external call made.
C13_NotFoundNoMutation ==
    \A e \in Slots :
       LET x    == execs[e]
           name == x.config.workerName
       IN  (/\ x.def.plugin = "workersPlugin"
            /\ x.def.type \in {"update", "delete", "query"})
           => /\ x.calls # <<>>
              /\ x.calls[1] = [op |-> "listWorkers", args |-> <<>>]
              /\ (/\ Len(x.returns) >= 1
                  /\ \A i \in 1..Len(x.returns[1]) : x.returns[1][i] # name)
                 => /\ x.pc = "done"
                    /\ CalledOps(x) = <<"listWorkers">>
                    /\ x.result.state = "resolved"
                    /\ IF x.def.type = "query"
                         THEN /\ x.result.success = TRUE
                              /\ x.result.data = [found |-> FALSE]
                         ELSE /\ x.result.success = FALSE
                              /\ x.result.error = "Worker " \o name \o " not found"

\* a deletion of foo found only bar listed
C13_Witness ==
    \E e \in Slots :
       /\ execs[e].key = "workers:delete"
       /\ execs[e].config.workerName = "foo"
       /\ execs[e].returns = << <<"bar">> >>
       /\ execs[e].pc = "done"
       /\ execs[e].result.error = "Worker foo not found"

\* C12: a bulk_write / bulk_delete whose kvPairs / keys text is not JSON
\* resolves from execute with success = false and the invalid-format message,
\* having made no external call and reported no progress; a text that is
\* JSON leads to exactly one call, of the bulk operation.
C12_BulkParseFailure ==
    \A e \in Slots :
       LET x    == execs[e]
           text == IF x.def.type = "bulk_write" THEN x.config.kvPairs ELSE x.config.keys
           bulk == IF x.def.type = "bulk_write" THEN "bulkWriteKV" ELSE "bulkDeleteKV"
           notJson ==
              { <<>>,
                <<Punct("["), Str("k1"), Punct(","), Punct("]")>>,
                <<Punct("["), Punct("{"), Str("key"), Punct(":"), Str("k1")>> }
       IN  (/\ x.def.plugin = "kvPlugin"
            /\ x.def.type \in {"bulk_write", "bulk_delete"})
           => IF text \in notJson
                THEN /\ x.pc = "done"
                     /\ x.result = [state |-> "resolved", success |-> FALSE,
                                    error |-> "invalid JSON format", data |-> NoData]
                     /\ x.calls = <<>>
                     /\ x.progress = <<>>
                ELSE /\ CalledOps(x) = <<bulk>>
                     /\ x.calls[1].args[1] = x.config.namespaceId
                     /\ Reported(x) = << <<1, 1>> >>

\* a bulk write whose text was cut short ended without a call
C12_Witness ==
    \E e \in Slots :
       /\ execs[e].key = "kv:bulk_write"
       /\ execs[e].executed = 1
       /\ Len(execs[e].config.kvPairs) = 5
       /\ execs[e].pc = "done"
       /\ execs[e].result.success = FALSE
       /\ execs[e].calls = <<>>

\* C14: each single-call kv task reports progress once, as (1,1), and makes
\* one external call; executeTask resolves with success = true and data
\* holding the value the call returned when it succeeded, and with
\* success = false and the error's message when it failed.
C14_SingleCallTasks ==
    \A e \in Slots :
       LET x == execs[e]
           t == x.def.type
           d == x.result.data
           \* the operation a single-call kv task calls
           SingleCallOp ==
              CASE t = "list"       -> "listKVNamespaces"
                [] t = "create"     -> "createKVNamespace"
                [] t = "delete"     -> "deleteKVNamespace"
                [] t = "list_keys"  -> "listKVKeys"
                [] t = "get"        -> "getKVValue"
                [] t = "put"        -> "putKVValue"
                [] t = "delete_key" -> "deleteKVKey"
       IN  (/\ x.def.plugin = "kvPlugin"
            /\ t \in {"list", "create", "delete", "list_keys", "get", "put",
                      "delete_key"})
           => /\ Reported(x) = << <<1, 1>> >>
              /\ CalledOps(x) = <<SingleCallOp>>
              /\ x.pc = "done" =>
                    /\ x.result.state = "resolved"
                    /\ IF Len(x.returns) = 1
                         THEN /\ x.result.success = TRUE
                              /\ t = "list" =>
                                    d = [count |-> Len(x.returns[1]),
                                         namespaces |-> x.returns[1]]
                              /\ t = "create" => d = x.returns[1]
                              /\ t = "list_keys" =>
                                    /\ d.keys = x.returns[1].keys
                                    /\ d.cursor = x.returns[1].cursor
                                    /\ d.count = Len(x.returns[1].keys)
                              /\ t = "get" =>
                                    d = [key |-> x.config.key, value |-> x.returns[1]]
                              /\ t = "put" =>
                                    d = [key |-> x.config.key, written |-> TRUE]
                              /\ t = "delete" => d = [deleted |-> TRUE]
                              /\ t = "delete_key" =>
                                    d = [key |-> x.config.key, deleted |-> TRUE]
                         ELSE /\ x.returns = <<>>
                              /\ x.result.success = FALSE
                              /\ \E err \in ApiErrors : x.result.error = err.message

\* a listing of two namespaces was wrapped with its count
C14_Witness ==
    \E e \in Slots :
       /\ execs[e].key = "kv:list"
       /\ execs[e].pc = "done"
       /\ execs[e].result.success
       /\ execs[e].result.data.count = 2
       /\ execs[e].result.data.namespaces[1].id = "ns2"

\* C15: emit for a kind that has no synchronous and no detached handler
\* returns normally, calls nothing and leaves both registries as they were.
C15_EmitWithoutHandlers ==
    [][\A k \in Kinds :
          (/\ busCall'.op = "emit"
           /\ busCall'.kind = k
           /\ syncListeners[k] = <<>>
           /\ DetachedOf(k) = <<>>)
          => /\ busCall'.outcome = "returned"
             /\ busCall'.invoked = <<>>
             /\ busCall'.caught = {}
             /\ busCall'.unhandled = {}
             /\ syncListeners' = syncListeners
             /\ asyncHandlers' = asyncHandlers]_vars

\* an emission found nothing for its kind (whose detached set had been
\* emptied by off) while the other kind held handlers
C15_Witness ==
    /\ busCall.op = "emit"
    /\ busCall.listeners = <<>>
    /\ busCall.detached = <<>>
    /\ busCall.invoked = <<>>
    /\ asyncHandlers[busCall.kind].has
    /\ \E k \in Kinds \ {busCall.kind} : Len(syncListeners[k]) > 0

C17_OffRemovesHandler ==
    [][\A k \in Kinds, h \in Handlers :
          (/\ busCall'.op = "off"
           /\ busCall'.kind = k
           /\ busCall'.handler = h)
          => /\ h \notin Registered(k)'
             /\ \A k2 \in Kinds \ {k} :
                   /\ syncListeners'[k2] = syncListeners[k2]
                   /\ asyncHandlers'[k2] = asyncHandlers[k2]
             /\ SelectSeq(syncListeners'[k], LAMBDA r : r.handler # h)
                   = SelectSeq(syncListeners[k], LAMBDA r : r.handler # h)
             /\ SelectSeq(DetachedOf(k)', LAMBDA g : g # h)
                   = SelectSeq(DetachedOf(k), LAMBDA g : g # h)]_vars

\* C18: removeAllListeners(kind) leaves kind without synchronous and without
\* detached handlers, listenerCount(kind) = 0, and every other kind as it
\* was; removeAllListeners() leaves every kind with listenerCount 0.
C18_RemoveAllListeners ==
    [][/\ \A k \in Kinds :
            (busCall'.op = "removeAllListeners" /\ busCall'.kind = k)
            => /\ syncListeners'[k] = <<>>
               /\ DetachedOf(k)' = <<>>
               /\ listenerCount(k)' = 0
               /\ \A k2 \in Kinds \ {k} :
                     /\ syncListeners'[k2] = syncListeners[k2]
                     /\ asyncHandlers'[k2] = asyncHandlers[k2]
       /\ (busCall'.op = "removeAllListeners" /\ busCall'.kind = "none")
            => \A k \in Kinds :
                  /\ listenerCount(k)' = 0
                  /\ Registered(k)' = {}]_vars

\* a kind that held a listener and a detached handler was cleared while the
\* other kind kept its handlers
C18_Witness ==
    /\ busCall.op = "removeAllListeners"
    /\ busCall.kind \in Kinds
    /\ busCall.listeners # <<>>
    /\ busCall.detached # <<>>
    /\ Registered(busCall.kind) = {}
    /\ \E k \in Kinds \ {busCall.kind} : listenerCount(k) >= 2

\* C19: listenerCount(kind) is the number of synchronous registrations held
\* for kind plus the number of distinct detached handlers held for kind.
C19_ListenerCount ==
    \A k \in Kinds :
       listenerCount(k) =
          Cardinality({i \in 1..Len(syncListeners[k]) : TRUE}) +
          Cardinality({h \in Handlers :
                          asyncHandlers[k].has /\
                          \E i \in 1..Len(asyncHandlers[k].set) :
                             asyncHandlers[k].set[i] = h})

\* one handler held by on and by a once that has not fired, and as detached
C19_Witness ==
    \E k \in Kinds :
       /\ listenerCount(k) = 3
       /\ \E i \in 1..Len(syncListeners[k]) : syncListeners[k][i].once
       /\ \E i \in 1..Len(syncListeners[k]) : ~syncListeners[k][i].once
       /\ Registered(k) = {"h1"}

\* C20 as stated: every synchronous registration of a kind is invoked in an
\* emission of that kind, and the once registrations are gone after it.
C20_EveryRegistrationInvoked ==
    [][\A k \in Kinds :
          (busCall'.op = "emit" /\ busCall'.kind = k)
          => /\ \A i \in 1..Len(syncListeners[k]) :
                   /\ i <= Len(busCall'.invoked)
                   /\ busCall'.invoked[i] = <<syncListeners[k][i].handler, "sync">>
             /\ \A i \in 1..Len(syncListeners'[k]) : ~syncListeners'[k][i].once]_vars

\* C20, amended: in an emission of kind the synchronous registrations are
\* called in order up to and including the first one that throws; a once
\* registration that was called is removed, every other registration stays,
\* so an on registration is called in every emission that reaches it and a
\* once registration in the first emission that reaches it and in no other.
C20_OnAndOnce ==
    busCall.op = "emit" =>
       LET hs  == SyncAtCall
           beh == busCall.beh
           inv == busCall.invoked
           reached == {i \in 1..Len(hs) : \A j \in 1..(i - 1) : beh[hs[j]] # "throw"}
           kept[i \in 0..Len(hs)] ==
              IF i = 0 THEN <<>>
              ELSE IF busCall.wrapped[i] /\ i \in reached THEN kept[i - 1]
              ELSE Append(kept[i - 1], [handler |-> hs[i], once |-> busCall.wrapped[i]])
       IN  /\ \A i \in reached : inv[i] = <<hs[i], "sync">>
           /\ Cardinality({j \in 1..Len(inv) : inv[j][2] = "sync"}) = Cardinality(reached)
           /\ syncListeners[busCall.kind] = kept[Len(hs)]

\* an emission called an on registration and a once registration; only the
\* on registration is left
C20_Witness ==
    /\ busCall.op = "emit"
    /\ busCall.outcome = "returned"
    /\ busCall.listeners = <<"h1", "h2">>
    /\ busCall.wrapped = <<FALSE, TRUE>>
    /\ Len(busCall.invoked) = 2
    /\ syncListeners[busCall.kind] = <<[handler |-> "h1", once |-> FALSE]>>

\* C21: two task definitions registered under different (resourceType, type)
\* pairs never occupy the same key resourceType:type of the task index.
C21_CompositeKeysUnique ==
    LET \* the (resourceType, type) pairs of the plugins the registry holds
        DeclaredPairs ==
           UNION {{<<plugins[i].k, TaskTypeNames(plugins[i].v)[j]>> :
                      j \in 1..Len(TaskTypeNames(plugins[i].v))} :
                  i \in 1..Len(plugins)}
    IN  \A a, b \in DeclaredPairs :
           a # b => FullType(a[1], a[2]) # FullType(b[1], b[2])

\* C22: when an external call of a task fails, executeTask resolves with a
\* failed result whose error is the service's own message when the failure
\* response names one, and the transport message or a generic message only
\* when it names none.
C22_ServiceMessageFirst ==
    [][\A e \in Slots : \A f \in AllFailures :
          (execs[e].pc \in ApiOps /\ apiFails(e, f)) =>
             LET r   == execs'[e].result
                 own == IF f.body.t = "envelope" /\ f.body.errors # <<>>
                          THEN f.body.errors[1].message ELSE ""
             IN  /\ r.state = "resolved"
                 /\ r.success = FALSE
                 /\ IF own # "" THEN r.error = own
                    ELSE r.error \in {"fetch failed", "404 Not Found",
                                      "task execution failed",
                                      MethodFallback(execs[e].pc)}]_vars

\* the resourceTypes of the summaries getPluginList returns, in order
ListedTypes == [i \in 1..Len(getPluginList) |-> getPluginList[i].resourceType]

\* C23 as stated: getPluginList returns one summary per registered
\* resourceType, with the plugin's metadata and declared task types, ordered
\* as the resourceTypes were first registered.
C23_FirstRegistrationOrder ==
    LET pos(rt) == CHOOSE i \in 1..Len(firstRegistered) : firstRegistered[i] = rt
    IN  /\ \A rt \in ResourceTypes :
              Cardinality({i \in 1..Len(ListedTypes) : ListedTypes[i] = rt})
                 = (IF getPlugin(rt) = "undefined" THEN 0 ELSE 1)
        /\ \A i, j \in 1..Len(ListedTypes) :
              i < j => pos(ListedTypes[i]) < pos(ListedTypes[j])

\* C23, amended: getPluginList returns exactly one summary per registered
\* resourceType, carrying the registered plugin's name, displayName,
\* description, resourceType and declared task types; registering a
\* resourceType that is absent puts its summary last, registering one that is
\* present keeps its place, and unregister removes its summary and leaves the
\* order of the others.
C23_PluginList ==
    [][/\ \A rt \in ResourceTypes :
            Cardinality({i \in 1..Len(ListedTypes') : ListedTypes'[i] = rt})
               = (IF getPlugin(rt)' = "undefined" THEN 0 ELSE 1)
       /\ \A i \in 1..Len(getPluginList') :
            LET e == getPluginList'[i]
            IN  \A p \in PluginIds, rt \in ResourceTypes :
                   (e.resourceType = rt /\ getPlugin(rt)' = p) =>
                      /\ e.name = PluginInfo(p).name
                      /\ e.displayName = PluginInfo(p).displayName
                      /\ e.description = PluginInfo(p).description
                      /\ e.taskTypes = TaskTypeNames(p)
       /\ \A rt \in ResourceTypes :
            /\ (lastOp'.op = "register" /\ lastOp'.rt = rt) =>
                  ListedTypes' = IF getPlugin(rt) = "undefined"
                                   THEN Append(ListedTypes, rt) ELSE ListedTypes
            /\ (lastOp'.op = "unregister" /\ lastOp'.rt = rt) =>
                  ListedTypes' = SelectSeq(ListedTypes, LAMBDA t : t # rt)]_vars

\* workers was registered first, removed and registered again after x: it
\* is listed last
C23_Witness ==
    /\ lastOp.op = "register"
    /\ firstRegistered = <<"workers", "x">>
    /\ ListedTypes = <<"x", "workers">>
    /\ getPluginList[1].name = "pluginB"
    /\ getPluginList[2].taskTypes = <<"create", "update", "delete", "query", "list">>

\* C24: registerBuiltinPlugins registers the workers plugin and then the kv
\* plugin; each plugin:registered event is emitted when the plugin it names
\* is in the registry; when the function returns, the registry holds exactly
\* 2 plugins and 14 task types, 5 of workers and 9 of kv.
C24_BuiltinPlugins ==
    LET \* the entries of the task index that hold a definition of plugin p
        keys(p) == {i \in 1..Len(taskHandlers) : taskHandlers[i].v.plugin = p}
    IN  /\ \A i \in 1..Len(boot.announced) :
              /\ boot.announced[i].resourceType = <<"workers", "kv">>[i]
              /\ boot.announced[i].name = <<"workers", "kv">>[i]
              /\ boot.announced[i].registered = <<"workersPlugin", "kvPlugin">>[i]
        /\ getPlugin("kv") # "undefined" =>
              getAllPlugins = <<"workersPlugin", "kvPlugin">>
        /\ boot.outcome = "returned" =>
              /\ Len(boot.announced) = 2
              /\ boot.counted = <<2, 14>>
              /\ Len(getAllPlugins) = 2
              /\ Len(getAllTaskTypes) = 14
              /\ Cardinality(keys("workersPlugin")) = 5
              /\ Cardinality(keys("kvPlugin")) = 9

\* the function returned with a listener and a detached handler subscribed,
\* both called on the announcement of kv
C24_Witness ==
    /\ boot.outcome = "returned"
    /\ boot.counted = <<2, 14>>
    /\ Len(syncListeners["plugin:registered"]) = 1
    /\ DetachedOf("plugin:registered") # <<>>
    /\ busCall.invoked # <<>>

\* C25: the registry performs no mutual exclusion. Whatever the other
\* invocations are doing, an invocation of a registered key can be started
\* in a free slot, also of a key that is in flight, and the pending external
\* call of any invocation in flight can be the next to return or to fail, so
\* the calls of two invocations interleave in every order.
C25_NoMutualExclusion ==
    \A e \in Flights :
       /\ execs[e].pc \in {"idle", "done"} =>
             \A t \in {"create", "delete"} :
                hasTaskType("workers:" \o t) =>
                   ENABLED (/\ executeTask(e, "workers:" \o t, [workerName |-> "foo"])
                            /\ execs'[e].pc \notin {"idle", "done"}
                            /\ UNCHANGED <<regVars, busVars>>)
       /\ execs[e].pc \in ApiOps =>
             /\ \A val \in ApiValues(execs[e].pc) :
                   ENABLED (apiResolve(e, val) /\ UNCHANGED <<regVars, busVars>>)
             /\ \A err \in ApiErrors :
                   ENABLED (apiReject(e, err) /\ UNCHANGED <<regVars, busVars>>)

\* two creations of foo are suspended at an external call, the one in the
\* second slot a call ahead of the other
C25_Witness ==
    /\ execs[1].key = "workers:create"
    /\ execs[2].key = "workers:create"
    /\ execs[1].pc = "uploadWorkerScript"
    /\ execs[2].pc = "deployWorker"

\* C26: within one execution of a built-in task the progress reports name
\* one total throughout, the first report has current = 1, current never
\* decreases from one report to the next and never exceeds total.
C26_ProgressMonotone ==
    \A e \in Slots :
       LET pr == execs[e].progress
       IN  execs[e].def.plugin \in {"workersPlugin", "kvPlugin"} =>
              /\ pr # <<>> => pr[1].current = 1
              /\ \A i \in 1..Len(pr) :
                    /\ pr[i].total = pr[1].total
                    /\ pr[i].current <= pr[i].total
                    /\ i > 1 => pr[i - 1].current <= pr[i].current

\* an update of foo went through its three reports while kv was registered
C26_Witness ==
    \E e \in Slots :
       /\ execs[e].key = "workers:update"
       /\ execs[e].result.success
       /\ Len(execs[e].progress) = 3
       /\ execs[e].progress[3].current = 3
       /\ hasTaskType("kv:put")

\* C27: a creation whose create, upload and deploy calls all succeeded ends
\* in a success result; no later external call turns it into a failed one.
C27_DeployedEndsInSuccess ==
    \A e \in Slots :
       LET x == execs[e]
       IN  (/\ x.def = [plugin |-> "workersPlugin", type |-> "create"]
            /\ Len(x.returns) >= 3
            /\ x.pc = "done")
           => x.result.success

\* C28: in a workers task every external call is immediately preceded by a
\* progress report of its own, and a successful run that went through all
\* its steps has made as many external calls as the total it reported.
C28_CallsEqualTotal ==
    \A e \in Slots :
       LET x == execs[e]
       IN  x.def.plugin = "workersPlugin" =>
              /\ Len(x.calls) = Len(x.progress)
              /\ (/\ x.pc = "done"
                  /\ x.result.success
                  /\ Len(x.progress) = x.progress[1].total)
                 => Len(x.calls) = x.progress[1].total

\* C29: an execution that waits for an external call is finished in the end,
\* given that every call it makes is settled, and what a finished execution
\* hands back is a TaskResult (the promise of executeTask is fulfilled).
C29_EventuallyResult ==
    \A e \in Slots :
       /\ [](execs[e].pc = "done" => execs[e].result.state = "resolved")
       /\ (execs[e].pc \in ApiOps) ~> (execs[e].pc = "done")

\* a creation whose fourth call failed has returned a (failed) result
C29_Witness ==
    \E e \in Slots :
       /\ execs[e].key = "workers:create"
       /\ execs[e].pc = "done"
       /\ Len(execs[e].calls) = 4
       /\ execs[e].result.state = "resolved"
       /\ ~execs[e].result.success

\* C30: an emission changes no handler registry, except that the once
\* listeners of the emitted kind it called are gone afterwards; it calls
\* only handlers held when it was made, and registering a handler calls
\* nothing, so no payload reaches a handler registered after the emission.
C30_EmitStoresNothing ==
    [][/\ busCall'.op = "emit" =>
            LET k     == busCall'.kind
                ls    == syncListeners[k]
                new   == syncListeners'[k]
                inv   == busCall'.invoked
                nSync == Cardinality({i \in 1..Len(inv) : inv[i][2] = "sync"})
                gone  == {i \in 1..Len(ls) : ls[i].once /\ i <= nSync}
            IN  /\ asyncHandlers' = asyncHandlers
                /\ \A k2 \in Kinds \ {k} : syncListeners'[k2] = syncListeners[k2]
                /\ Len(new) = Len(ls) - Cardinality(gone)
                /\ \A i \in (1..Len(ls)) \ gone :
                      new[i - Cardinality({j \in gone : j < i})] = ls[i]
                /\ \A i \in 1..Len(inv) :
                      IF inv[i][2] = "sync"
                        THEN i <= Len(ls) /\ ls[i].handler = inv[i][1]
                        ELSE \E j \in 1..Len(DetachedOf(k)) :
                                DetachedOf(k)[j] = inv[i][1]
       /\ busCall'.op \in {"on", "once", "onAsync"} => busCall'.invoked = <<>>
      ]_vars

\* an emission called a once listener and a detached handler; the once
\* listener is gone, the detached handler and the other kind's listener stay
C30_Witness ==
    /\ busCall.op = "emit"
    /\ busCall.kind = "task:started"
    /\ busCall.wrapped = <<TRUE>>
    /\ Len(busCall.invoked) = 2
    /\ syncListeners["task:started"] = <<>>
    /\ Len(DetachedOf("task:started")) = 1
    /\ Len(syncListeners["plugin:registered"]) = 1

\* C31: the keys of the task index are exactly the composite keys of the
\* task types that the currently registered plugins declare, and every key
\* maps to the definition of the plugin registered under its resourceType.
C31_TaskIndexExact ==
    LET Declared ==
           UNION {{[k |-> FullType(plugins[i].k, getTaskTypes(plugins[i].v)[j].type),
                    v |-> getTaskTypes(plugins[i].v)[j]] :
                      j \in 1..Len(getTaskTypes(plugins[i].v))} :
                  i \in 1..Len(plugins)}
    IN  {taskHandlers[i] : i \in 1..Len(taskHandlers)} = Declared

\* C32: register(plugin) and unregister(resourceType) leave every other
\* registered resourceType R as it was: getPlugin(R) and the task-index
\* entries of the task types R's plugin declares are the same afterwards.
C32_OtherResourceTypesUntouched ==
    [][\A q \in PluginIds \cup ColonPluginIds :
          LET R == resourceType(q)
          IN  (/\ lastOp' # lastOp
               /\ lastOp'.rt # R
               /\ getPlugin(R) = q)
              => /\ getPlugin(R)' = q
                 /\ \A j \in 1..Len(TaskTypeNames(q)) :
                       getTaskHandler(FullType(R, TaskTypeNames(q)[j]))' =
                       getTaskHandler(FullType(R, TaskTypeNames(q)[j]))
      ]_vars

\* C33: when a synchronous handler throws during an emission, the
\* synchronous registrations after it and the detached handlers of the kind
\* are not called in that emission; detached handlers are called only after
\* synchronous delivery went through without an exception.
C33_ThrowEndsDelivery ==
    busCall.op = "emit" =>
       LET hs       == busCall.listeners
           throwers == {i \in 1..Len(hs) : busCall.beh[hs[i]] = "throw"}
           inv      == busCall.invoked
       IN  /\ throwers # {} =>
                LET t == CHOOSE i \in throwers : \A j \in throwers : i <= j
                IN  inv = [i \in 1..t |-> <<hs[i], "sync">>]
           /\ (\E i \in 1..Len(inv) : inv[i][2] = "detached") => throwers = {}

\* the first of two listeners threw while the kind had a detached handler
C33_Witness ==
    /\ busCall.op = "emit"
    /\ Len(busCall.listeners) = 2
    /\ busCall.beh[busCall.listeners[1]] = "throw"
    /\ Len(busCall.invoked) = 1
    /\ busCall.detached # <<>>

\* C34: an emission calls only handlers that were registered for the kind
\* when it began; a handler registered from inside a running handler, with
\* on or with onAsync, is not called by the emission in progress.
C34_DeliversToRegisteredAtCall ==
    busCall.op = "emit" =>
       \A i \in 1..Len(busCall.invoked) :
          LET c == busCall.invoked[i]
          IN  c.handler \in (IF c.route = "sync"
                               THEN busCall.started[c.emission].sync
                               ELSE busCall.started[c.emission].detached)

\* C35: the listener of a once registration is called at most one time,
\* also when a handler emits the same kind while the first emission is
\* still being delivered, and the registration is gone after the emission
\* that called it.
C35_OnceAtMostOnce ==
    busCall.op = "emit" =>
       LET ls     == busCall.listeners
           inv    == busCall.invoked
           Via(n) == {i \in 1..Len(inv) : inv[i].route = "sync" /\ inv[i].id = n}
           onces  == {n \in 1..Len(ls) : ls[n].once}
           left   == syncListeners[busCall.kind]
       IN  /\ \A n \in onces : Cardinality(Via(n)) <= 1
           /\ \A i \in 1..Len(left) : ~left[i].once

\* a once listener was in the copies of two emissions in progress at the
\* same time: the outer emission and the one a handler made from inside it
C35_Witness ==
    /\ busCall.op = "emit"
    /\ Len(busCall.started) >= 2
    /\ \E n \in 1..Len(busCall.listeners) :
          /\ busCall.listeners[n].once
          /\ n > 1
          /\ \E i \in 1..Len(busCall.invoked) :
                /\ busCall.invoked[i].id = n
                /\ busCall.invoked[i].emission = 2

\* C36: whatever the subscribers of plugin:registered do, once
\* registerBuiltinPlugins has ended, by returning or by an exception, both
\* the workers plugin and the kv plugin are registered.
C36_BothRegisteredWhenEnded ==
    boot.outcome \in {"returned", "threw"} =>
       /\ getPlugin("workers") = "workersPlugin"
       /\ getPlugin("kv") = "kvPlugin"

\* C37: a deletion or an update issues its mutating call (deleteWorker,
\* uploadWorkerScript) only while the worker it looked up is still held by
\* the account, whatever other executions do in between.
C37_MutatesExistingWorker ==
    [][\A e \in Flights :
          (/\ execs[e].pc = "listWorkers"
           /\ execs'[e].pc \in {"deleteWorker", "uploadWorkerScript"})
          => execs[e].config.workerName \in cloud.workers
      ]_vars

\* C38: a bulk_write or bulk_delete whose text parses as JSON to something
\* that is no list sends no external request and ends in a failed result.
C38_BulkNeedsList ==
    \A e \in Slots :
       LET x == execs[e]
       IN  (/\ x.def.plugin = "kvPlugin"
            /\ x.def.type \in {"bulk_write", "bulk_delete"}
            /\ x.calls # <<>>
            /\ x.locals.parsed.t # "array")
           => /\ x.pc \in ApiOps => ~Sends(x)
              /\ x.pc = "done" => (~x.result.success /\ x.returns = <<>>)

\* C39: an execution that was started on a task of the workers plugin and
\* has been suspended at an external call keeps the definition it was
\* started with, whatever is registered or unregistered meanwhile: it is
\* never ended as an unknown task type, and a deletion or update whose calls
\* all succeeded returns the result of the workers plugin's definition.
C39_DefinitionResolvedOnce ==
    \A e \in Slots :
       LET x == execs[e]
       IN  x.calls # <<>> =>
              /\ x.def.plugin = "workersPlugin"
              /\ x.key = FullType("workers", x.def.type)
              /\ x.pc = "done" => x.result.error # "unknown task type: " \o x.key
              /\ (x.def.type = "delete" /\ Len(x.returns) = 2) =>
                    x.result = Success([deleted |-> TRUE])
              /\ (x.def.type = "update" /\ Len(x.returns) = 3) =>
                    x.result = Success([versionId |-> x.returns[2],
                                        deploymentId |-> x.returns[3]])

\* a deletion is suspended at its second call while its key is already
\* indexed to the definition of the plugin that replaced the workers plugin
C39_Witness ==
    \E e \in Slots :
       /\ execs[e].key = "workers:delete"
       /\ execs[e].pc = "deleteWorker"
       /\ getTaskHandler("workers:delete").plugin = "pluginW"
       /\ getPlugin("workers") = "pluginW"
====
